---- MODULE Spec2Model ----
(***************************************************************************)
(* Position lifecycle and portfolio ledger of the trading bot:             *)
(*   - Position and Position.calculate_pnl        (trading_engine.py)      *)
(*   - TechnicalAnalyzer: adaptive stops, Fibonacci levels, pullbacks      *)
(*                                                (technical_analysis.py)  *)
(*   - PaperTradingEngine                         (paper_trading.py)       *)
(*   - ManualBacktester                           (advanced_backtester.py) *)
(*   - the signal handler of TradingBot with its confirmation waits        *)
(*                                     (main.py, market_monitor.py)        *)
(*   - the shutdown path of TradingBot            (main.py)                *)
(*                                                                         *)
(* Money and prices are integers counted in hundredths of a rouble, so the *)
(* percentages of the configuration are exact.  Prices fed to the engines  *)
(* are whole roubles (multiples of 100).  A timestamp is a number of       *)
(* minutes, day * 1440 + minute of the day.                                *)
(***************************************************************************)
EXTENDS Integers, Sequences, FiniteSets, TLC

VARIABLES
    mode,               \* what is running: "paper", "live", "backtest", "pnl", "analyzer", "twin", "stats",
                        \* "error_handler"
    initial_capital,    \* self.initial_capital
    current_balance,    \* self.current_balance
    available_balance,  \* self.available_balance
    positions,          \* self.positions, a list of Position
    closed_positions,   \* self.closed_positions, a list of Position
    trade_counter,      \* self.trade_counter; also the identity of a Position
    now,                \* paper mode: the wall clock, datetime.now()
    mon_queue,          \* paper mode: the rest of the snapshot monitor_positions iterates
    run_pc,             \* paper mode: run_live_trading is "running", "closing" or "stopped"
    shut_queue,         \* paper mode: the rest of the snapshot the shutdown loop iterates
    atr,                \* backtest: the ATR of the whole series
    idx,                \* backtest: number of candles consumed
    row,                \* backtest: the candle being processed
    bt_pc,              \* backtest: where run_manual_backtest is in its loop body
    error,              \* the exception the last close_position call raised
    pnl_call,           \* the last direct call of calculate_pnl: <<price, result>>
    call,               \* the last direct call of a TechnicalAnalyzer function
    twin,               \* two backtest runs fed the same series, side by side
    n_candles,          \* backtest: len(candles_df), the length of the whole series
    handler,            \* paper mode: the signal handler that is waiting for its entry
    failed_fetches,     \* paper mode: price fetches of the monitor that failed in a row
    live,               \* live mode: the handlers at the engine and the close under way
    error_handler       \* error_handler.py: the ConnectionStatus, the callbacks and a safe_call

vars == <<mode, initial_capital, current_balance, available_balance, positions,
          closed_positions, trade_counter, now, mon_queue, run_pc, shut_queue,
          atr, idx, row, bt_pc, error, pnl_call, call, twin, n_candles, handler,
          failed_fetches, live, error_handler>>

ledger == <<initial_capital, current_balance, available_balance, positions,
            closed_positions, trade_counter>>
paper_vars == <<now, mon_queue, run_pc, shut_queue>>
bt_vars == <<atr, idx, row, bt_pc>>
ext == <<call, twin, n_candles, handler, failed_fetches, live, error_handler>>

-----------------------------------------------------------------------------
(* Configuration (config.py).  Fractions are kept as integers:             *)
(* 1.5 as 15 tenths, 0.1 and 0.3 as 1 and 3 tenths.                        *)

MAX_POSITION_SIZE_PERCENT == 5
MAX_OPEN_POSITIONS == 3
MAX_DRAWDOWN_PERCENT == 10
MIN_BALANCE == 10000
MIN_RISK_REWARD_RATIO_X10 == 15
ATR_PERIOD == 14
ATR_STOP_MULTIPLIER == 2
ATR_TAKE_MULTIPLIER == 3
MIN_STOP_LOSS_PERCENT == 1
MAX_STOP_LOSS_PERCENT == 5
RANGE_ENTRY_OFFSET_X10 == 1
RANGE_STOP_PERCENT_X10 == 3
BACKTEST_INITIAL_CAPITAL == 100000

Rub(x) == x * 100

session_start == 10 * 60
session_end == 23 * 60 + 30
close_before_end == 23 * 60

-----------------------------------------------------------------------------
(* Bounds and input sets.                                                  *)

MaxTrades == 4      \* positions a paper session may open
MaxCandles == 4     \* candles of a backtest series that fall after the warm-up
MaxDay == 2         \* days the clock or the series spans
MaxQty == 3         \* quantities of the position calculate_pnl is called on

Prices == {Rub(50), Rub(100), Rub(400)}    \* candle closes and polled prices
EntryPrices == {Rub(100)}                  \* prices wait_for_pullback confirms
RangePrices == {Rub(100), Rub(400)}        \* first polled price inside an entry zone
ShutdownPrices == {Rub(400)}               \* prices polled by the shutdown loop
ATRs == {100, 200}                         \* ATR of a candle series, 1 and 2 roubles
PullbackATRs == {100}                      \* ATR of the market context of a signal
LotSizes == {10}
Slots == {12 * 60, 15 * 60, 23 * 60, 23 * 60 + 45}
Times == {d * 1440 + s : d \in 1..MaxDay, s \in Slots}
ClockTimes == {d * 1440 + 12 * 60 : d \in 1..MaxDay}    \* readings of the wall clock
Ranges == {[low |-> Rub(100), high |-> Rub(105)]}
Contexts == {"POSITIVE", "NEGATIVE", "NEUTRAL"}

TimeOfDay(t) == t % 1440
DayOf(t) == t \div 1440

Max(a, b) == IF a >= b THEN a ELSE b
Min(a, b) == IF a <= b THEN a ELSE b

RemoveId(s, id) == SelectSeq(s, LAMBDA p : p.id # id)

-----------------------------------------------------------------------------
(* Position (trading_engine.py).  close_price = 0 and close_reason =       *)
(* "None" stand for Python's None; a real price is positive.               *)

NewPosition(id, direction, quantity, entry_price, stop_loss, take_profit, strategy, t) ==
    [id |-> id, direction |-> direction, quantity |-> quantity,
     entry_price |-> entry_price, stop_loss |-> stop_loss,
     take_profit |-> take_profit, strategy |-> strategy, entry_time |-> t,
     is_closed |-> FALSE, close_price |-> 0, close_reason |-> "None",
     profit_loss |-> 0, max_profit |-> 0, max_loss |-> 0]

\* A calculate_pnl that ignores the direction.
PnlValueSameSign(p, current_price) == (current_price - p.entry_price) * p.quantity

\* The value calculate_pnl returns.
PnlValue(p, current_price) ==
    IF p.direction = "UP"
    THEN (current_price - p.entry_price) * p.quantity
    ELSE (p.entry_price - current_price) * p.quantity

\* A calculate_pnl that keeps the extrema of the last evaluation only.
CalculatePnlLastOnly(p, current_price) ==
    LET pnl == PnlValue(p, current_price)
    IN [p EXCEPT !.max_profit = IF pnl > 0 THEN pnl ELSE 0,
                 !.max_loss = IF pnl < 0 THEN pnl ELSE 0]

\* The position after calculate_pnl has updated its running extrema.
CalculatePnl(p, current_price) ==
    LET pnl == PnlValue(p, current_price)
    IN [p EXCEPT !.max_profit = IF pnl > p.max_profit THEN pnl ELSE p.max_profit,
                 !.max_loss = IF pnl < p.max_loss THEN pnl ELSE p.max_loss]

-----------------------------------------------------------------------------
(* TechnicalAnalyzer.calculate_adaptive_stops (technical_analysis.py).     *)
(* stop_percent is kept multiplied by entry_price, so that the clamp to    *)
(* [MIN_STOP_LOSS_PERCENT, MAX_STOP_LOSS_PERCENT] is exact.  entry_price   *)
(* is positive, hence so is the clamped stop_distance.                     *)

\* A calculate_adaptive_stops that places the levels of a long position
\* whatever the direction.
AdaptiveStopsSameSide(entry_price, atr_value, direction) ==
    LET raw_stop == atr_value * ATR_STOP_MULTIPLIER
        take_distance == atr_value * ATR_TAKE_MULTIPLIER
        percent_x_entry == Max(MIN_STOP_LOSS_PERCENT * entry_price,
                               Min(raw_stop * 100, MAX_STOP_LOSS_PERCENT * entry_price))
        stop_distance == percent_x_entry \div 100
    IN [stop_loss |-> entry_price - stop_distance,
        take_profit |-> entry_price + take_distance,
        stop_distance |-> stop_distance,
        take_distance |-> take_distance,
        stop_percent_x_entry |-> percent_x_entry,
        risk_reward_x100 |-> (take_distance * 100) \div stop_distance]

\* A calculate_adaptive_stops that leaves out the clamp of stop_percent.
AdaptiveStopsUnclamped(entry_price, atr_value, direction) ==
    LET stop_distance == atr_value * ATR_STOP_MULTIPLIER
        take_distance == atr_value * ATR_TAKE_MULTIPLIER
    IN [stop_loss |-> IF direction = "UP" THEN entry_price - stop_distance
                                          ELSE entry_price + stop_distance,
        take_profit |-> IF direction = "UP" THEN entry_price + take_distance
                                            ELSE entry_price - take_distance,
        stop_distance |-> stop_distance,
        take_distance |-> take_distance,
        stop_percent_x_entry |-> stop_distance * 100,
        risk_reward_x100 |-> IF stop_distance = 0 THEN 0
                             ELSE (take_distance * 100) \div stop_distance]

\* The levels and distances calculate_adaptive_stops returns; risk_reward_x100
\* is risk_reward_ratio in hundredths, rounded down.
AdaptiveStops(entry_price, atr_value, direction) ==
    LET raw_stop == atr_value * ATR_STOP_MULTIPLIER
        take_distance == atr_value * ATR_TAKE_MULTIPLIER
        percent_x_entry == Max(MIN_STOP_LOSS_PERCENT * entry_price,
                               Min(raw_stop * 100, MAX_STOP_LOSS_PERCENT * entry_price))
        stop_distance == percent_x_entry \div 100
    IN [stop_loss |-> IF direction = "UP" THEN entry_price - stop_distance
                                          ELSE entry_price + stop_distance,
        take_profit |-> IF direction = "UP" THEN entry_price + take_distance
                                            ELSE entry_price - take_distance,
        stop_distance |-> stop_distance,
        take_distance |-> take_distance,
        stop_percent_x_entry |-> percent_x_entry,
        risk_reward_x100 |-> (take_distance * 100) \div stop_distance]

\* stops['risk_reward_ratio'] < Config.MIN_RISK_REWARD_RATIO
RiskRewardTooLow(reward, risk) ==
    IF risk > 0 THEN reward * 10 < MIN_RISK_REWARD_RATIO_X10 * risk ELSE TRUE

Abs(x) == IF x < 0 THEN -x ELSE x

-----------------------------------------------------------------------------
(* MarketMonitor.monitor_range_trading_opportunity (market_monitor.py):    *)
(* the result for the first polled price that lies in an entry zone.       *)

InBuyZone(range, current_price) ==
    current_price * 10 <= range.low * 10 + (range.high - range.low) * RANGE_ENTRY_OFFSET_X10

InSellZone(range, current_price) ==
    current_price * 10 >= range.high * 10 - (range.high - range.low) * RANGE_ENTRY_OFFSET_X10

\* A result whose take_profit is the far bound of the range itself and whose
\* stop_loss is a whole width away.
RangeResultAtTheBounds(range, current_price) ==
    LET range_width == range.high - range.low
    IN IF InBuyZone(range, current_price)
       THEN [direction |-> "UP", entry_price |-> current_price,
             stop_loss |-> current_price - range_width,
             take_profit |-> range.high]
       ELSE [direction |-> "DOWN", entry_price |-> current_price,
             stop_loss |-> current_price + range_width,
             take_profit |-> range.low]

\* Prices of the result multiplied by 10 would be exact for any width; the
\* widths of Ranges are multiples of 10, so the division is exact.
RangeResult(range, current_price) ==
    LET range_width == range.high - range.low
        offset == (range_width * RANGE_ENTRY_OFFSET_X10) \div 10
        stop_distance == (range_width * RANGE_STOP_PERCENT_X10) \div 10
    IN IF InBuyZone(range, current_price)
       THEN [direction |-> "UP", entry_price |-> current_price,
             stop_loss |-> current_price - stop_distance,
             take_profit |-> range.high - offset]
       ELSE [direction |-> "DOWN", entry_price |-> current_price,
             stop_loss |-> current_price + stop_distance,
             take_profit |-> range.low + offset]

-----------------------------------------------------------------------------
(* PaperTradingEngine (paper_trading.py).                                  *)

\* A can_open_position without the test of the open count.
CanOpenPositionNoLimit(n_open, available, current, initial) ==
    /\ ~(available < Rub(MIN_BALANCE))
    /\ ~(initial > 0 /\ (initial - current) * 100 > MAX_DRAWDOWN_PERCENT * initial)

\* can_open_position: each conjunct is one of its "return False" tests.
CanOpenPosition(n_open, available, current, initial) ==
    /\ ~(n_open >= MAX_OPEN_POSITIONS)
    /\ ~(available < Rub(MIN_BALANCE))
    /\ ~(initial > 0 /\ (initial - current) * 100 > MAX_DRAWDOWN_PERCENT * initial)

\* A sizing that takes MAX_POSITION_SIZE_PERCENT as a factor, not a percentage.
MaxLotsPercentNotDivided(available, entry_price, lot_size) ==
    (available * MAX_POSITION_SIZE_PERCENT) \div (entry_price * lot_size)

\* A sizing that rounds the number of lots up.
MaxLotsRoundedUp(available, entry_price, lot_size) ==
    (available * MAX_POSITION_SIZE_PERCENT + 100 * entry_price * lot_size - 1)
        \div (100 * entry_price * lot_size)

\* max_lots = int(available_balance * (MAX_POSITION_SIZE_PERCENT / 100) / (entry_price * lot_size))
MaxLots(available, entry_price, lot_size) ==
    (available * MAX_POSITION_SIZE_PERCENT) \div (100 * entry_price * lot_size)

\* The head of close_position: the fields it writes on the position.
MarkClosed(p, current_price, reason) ==
    [CalculatePnl(p, current_price) EXCEPT
         !.is_closed = TRUE,
         !.close_price = current_price,
         !.close_reason = reason,
         !.profit_loss = PnlValue(p, current_price)]

\* close_position applied to the ledger L = [available_balance, current_balance,
\* positions, closed_positions]; p is an element of L.positions.
ClosePosition(L, p, current_price, reason) ==
    LET q == MarkClosed(p, current_price, reason)
    IN [available_balance |-> L.available_balance + p.quantity * current_price,
        current_balance |-> L.current_balance + q.profit_loss,
        positions |-> RemoveId(L.positions, p.id),
        closed_positions |-> Append(L.closed_positions, q)]

\* An SL/TP test that knows the stop only.
CloseDecisionStopOnly(p, current_price) ==
    IF (p.direction = "UP" /\ current_price <= p.stop_loss)
       \/ (p.direction # "UP" /\ current_price >= p.stop_loss)
    THEN [should_close |-> TRUE, close_reason |-> "stop_loss", price |-> p.stop_loss]
    ELSE [should_close |-> FALSE, close_reason |-> "None", price |-> current_price]

\* An SL/TP test that closes at the price of the tick.
CloseDecisionAtTick(p, current_price) ==
    IF p.direction = "UP"
    THEN IF current_price <= p.stop_loss
         THEN [should_close |-> TRUE, close_reason |-> "stop_loss", price |-> current_price]
         ELSE IF current_price >= p.take_profit
         THEN [should_close |-> TRUE, close_reason |-> "take_profit", price |-> current_price]
         ELSE [should_close |-> FALSE, close_reason |-> "None", price |-> current_price]
    ELSE IF current_price >= p.stop_loss
         THEN [should_close |-> TRUE, close_reason |-> "stop_loss", price |-> current_price]
         ELSE IF current_price <= p.take_profit
         THEN [should_close |-> TRUE, close_reason |-> "take_profit", price |-> current_price]
         ELSE [should_close |-> FALSE, close_reason |-> "None", price |-> current_price]

\* The SL/TP test of monitor_positions: whether to close, why and at what price.
CloseDecision(p, current_price) ==
    IF p.direction = "UP"
    THEN IF current_price <= p.stop_loss
         THEN [should_close |-> TRUE, close_reason |-> "stop_loss", price |-> p.stop_loss]
         ELSE IF current_price >= p.take_profit
         THEN [should_close |-> TRUE, close_reason |-> "take_profit", price |-> p.take_profit]
         ELSE [should_close |-> FALSE, close_reason |-> "None", price |-> current_price]
    ELSE IF current_price >= p.stop_loss
         THEN [should_close |-> TRUE, close_reason |-> "stop_loss", price |-> p.stop_loss]
         ELSE IF current_price <= p.take_profit
         THEN [should_close |-> TRUE, close_reason |-> "take_profit", price |-> p.take_profit]
         ELSE [should_close |-> FALSE, close_reason |-> "None", price |-> current_price]

Ledger == [available_balance |-> available_balance, current_balance |-> current_balance,
           positions |-> positions, closed_positions |-> closed_positions]

SetLedger(L) ==
    /\ available_balance' = L.available_balance
    /\ current_balance' = L.current_balance
    /\ positions' = L.positions
    /\ closed_positions' = L.closed_positions

PositionById(s, id) == CHOOSE p \in {s[i] : i \in 1..Len(s)} : p.id = id

Ids(s) == [i \in 1..Len(s) |-> s[i].id]

ReplaceById(s, q) == [i \in 1..Len(s) |-> IF s[i].id = q.id THEN q ELSE s[i]]

NoPrice == 0 - 1    \* get_current_price returned None

MAX_RETRY_ATTEMPTS == 3

\* Prices the monitor is given in a session with a failing connection.
ConnPrices == {Rub(50), Rub(100), Rub(400)}

\* open_pullback_position, reached from handle_telegram_message once
\* wait_for_pullback has confirmed an entry price.
OpenPullbackPosition(direction, entry_price, atr_value, lot_size) ==
    LET stops == AdaptiveStops(entry_price, atr_value, direction)
        max_lots == MaxLots(available_balance, entry_price, lot_size)
        position_cost == max_lots * lot_size * entry_price
    IN /\ CanOpenPosition(Len(positions), available_balance, current_balance,
                          initial_capital)
       /\ ~RiskRewardTooLow(stops.take_distance, stops.stop_distance)
       /\ ~(max_lots < 1)
       /\ trade_counter' = trade_counter + 1
       /\ positions' = Append(positions,
              NewPosition(trade_counter + 1, direction, max_lots * lot_size,
                          entry_price, stops.stop_loss, stops.take_profit,
                          "pullback", now))
       /\ available_balance' = available_balance - position_cost
       /\ UNCHANGED <<initial_capital, current_balance, closed_positions>>

\* open_range_trading_position, reached from handle_telegram_message once
\* monitor_range_trading_opportunity has returned a result.
OpenRangeTradingPosition(direction, entry_price, stop_loss, take_profit, lot_size) ==
    LET risk == Abs(entry_price - stop_loss)
        reward == Abs(take_profit - entry_price)
        max_lots == MaxLots(available_balance, entry_price, lot_size)
        position_cost == max_lots * lot_size * entry_price
    IN /\ CanOpenPosition(Len(positions), available_balance, current_balance,
                          initial_capital)
       /\ ~RiskRewardTooLow(reward, risk)
       /\ ~(max_lots < 1)
       /\ trade_counter' = trade_counter + 1
       /\ positions' = Append(positions,
              NewPosition(trade_counter + 1, direction, max_lots * lot_size,
                          entry_price, stop_loss, take_profit, "range_trading", now))
       /\ available_balance' = available_balance - position_cost
       /\ UNCHANGED <<initial_capital, current_balance, closed_positions>>

HandlePullbackSignal ==
    /\ mode = "paper" /\ run_pc # "stopped" /\ trade_counter < MaxTrades
    /\ \E direction \in {"UP", "DOWN"}, entry_price \in EntryPrices,
          atr_value \in PullbackATRs, lot_size \in LotSizes :
          OpenPullbackPosition(direction, entry_price, atr_value, lot_size)
    /\ UNCHANGED <<mode, paper_vars, bt_vars, error, pnl_call, ext>>

HandleNeutralSignal ==
    /\ mode = "paper" /\ run_pc # "stopped" /\ trade_counter < MaxTrades
    /\ \E range \in Ranges, current_price \in RangePrices, lot_size \in LotSizes :
          /\ InBuyZone(range, current_price) \/ InSellZone(range, current_price)
          /\ LET r == RangeResult(range, current_price)
             IN OpenRangeTradingPosition(r.direction, r.entry_price, r.stop_loss,
                                         r.take_profit, lot_size)
    /\ UNCHANGED <<mode, paper_vars, bt_vars, error, pnl_call, ext>>

\* monitor_positions: "for position in self.positions[:]" takes the snapshot.
MonitorSnapshot ==
    /\ mode = "paper" /\ run_pc = "running"
    /\ mon_queue = <<>> /\ positions # <<>>
    /\ mon_queue' = Ids(positions)
    /\ UNCHANGED <<mode, ledger, now, run_pc, shut_queue, bt_vars, error, pnl_call, ext>>

\* monitor_positions: one iteration of the loop over the snapshot.
MonitorPosition ==
    /\ mode = "paper" /\ run_pc = "running" /\ mon_queue # <<>>
    /\ mon_queue' = Tail(mon_queue)
    /\ \E current_price \in Prices \cup {NoPrice} :
          IF current_price = NoPrice
          THEN UNCHANGED ledger
          ELSE LET p == CalculatePnl(PositionById(positions, Head(mon_queue)),
                                     current_price)
                   d == CloseDecision(p, current_price)
                   L == [Ledger EXCEPT !.positions = ReplaceById(positions, p)]
               IN /\ SetLedger(IF d.should_close
                               THEN ClosePosition(L, p, d.price, d.close_reason)
                               ELSE L)
                  /\ UNCHANGED <<initial_capital, trade_counter>>
    /\ UNCHANGED <<mode, now, run_pc, shut_queue, bt_vars, error, pnl_call, ext>>

\* run_live_trading, the finally block: the monitoring task is cancelled and
\* the shutdown loop takes its snapshot of engine.positions.
ShutdownBegin ==
    /\ mode = "paper" /\ run_pc = "running"
    /\ mon_queue' = <<>>
    /\ shut_queue' = Ids(positions)
    /\ run_pc' = IF positions = <<>> THEN "stopped" ELSE "closing"
    /\ UNCHANGED <<mode, ledger, now, bt_vars, error, pnl_call, ext>>

\* run_live_trading, the finally block: one iteration of the shutdown loop.
ShutdownPosition ==
    /\ mode = "paper" /\ run_pc = "closing" /\ shut_queue # <<>>
    /\ shut_queue' = Tail(shut_queue)
    /\ run_pc' = IF Tail(shut_queue) = <<>> THEN "stopped" ELSE "closing"
    /\ \E current_price \in ShutdownPrices \cup {NoPrice} :
          IF current_price = NoPrice
          THEN UNCHANGED ledger
          ELSE /\ SetLedger(ClosePosition(Ledger,
                       PositionById(positions, Head(shut_queue)),
                       current_price, "bot_shutdown"))
               /\ UNCHANGED <<initial_capital, trade_counter>>
    /\ UNCHANGED <<mode, now, mon_queue, bt_vars, error, pnl_call, ext>>

\* monitor_positions on a session whose price fetches are recorded and
\* whose failed fetches are counted: the loop itself keeps no count, it goes
\* on to the next position.
MonitorPositionAndCount ==
    /\ mode = "paper" /\ run_pc = "running" /\ mon_queue # <<>>
    /\ mon_queue' = Tail(mon_queue)
    /\ \E current_price \in ConnPrices \cup {NoPrice} :
          /\ call' = [fn |-> "get_price", id |-> Head(mon_queue),
                      price |-> current_price]
          /\ IF current_price = NoPrice
             THEN /\ failed_fetches' = Min(failed_fetches + 1, MAX_RETRY_ATTEMPTS)
                  /\ UNCHANGED ledger
             ELSE LET p == CalculatePnl(PositionById(positions, Head(mon_queue)),
                                        current_price)
                      d == CloseDecision(p, current_price)
                      L == [Ledger EXCEPT !.positions = ReplaceById(positions, p)]
                  IN /\ failed_fetches' = 0
                     /\ SetLedger(IF d.should_close
                                  THEN ClosePosition(L, p, d.price, d.close_reason)
                                  ELSE L)
                     /\ UNCHANGED <<initial_capital, trade_counter>>
    /\ UNCHANGED <<mode, now, run_pc, shut_queue, bt_vars, error, pnl_call,
                   twin, n_candles, handler, live, error_handler>>

\* The wall clock moves on while the bot keeps running.
AdvanceClock ==
    /\ mode = "paper" /\ run_pc # "stopped"
    /\ \E t \in ClockTimes : t > now /\ now' = t
    /\ UNCHANGED <<mode, ledger, mon_queue, run_pc, shut_queue, bt_vars, error, pnl_call, ext>>

\* close_position called on a position that is already in closed_positions:
\* the fields are written and the balances credited before
\* self.positions.remove(position) raises ValueError.
CloseAgain ==
    /\ mode = "paper" /\ error = "none" /\ closed_positions # <<>>
    /\ \E i \in 1..Len(closed_positions), current_price \in Prices :
          LET p == closed_positions[i]
              q == MarkClosed(p, current_price, "manual")
          IN /\ closed_positions' = [closed_positions EXCEPT ![i] = q]
             /\ available_balance' = available_balance + p.quantity * current_price
             /\ current_balance' = current_balance + q.profit_loss
    /\ error' = "ValueError"
    /\ UNCHANGED <<mode, initial_capital, positions, trade_counter, paper_vars,
                   bt_vars, pnl_call, ext>>

PaperNext ==
    \/ HandlePullbackSignal
    \/ HandleNeutralSignal
    \/ MonitorSnapshot
    \/ MonitorPosition
    \/ ShutdownBegin
    \/ ShutdownPosition

-----------------------------------------------------------------------------
(* ManualBacktester (advanced_backtester.py).                              *)

IsTradingHours(t) == session_start <= TimeOfDay(t) /\ TimeOfDay(t) <= session_end

ShouldClosePositions(t) == TimeOfDay(t) >= close_before_end

\* ManualBacktester.close_position applied to the ledger L.
BTClosePosition(L, p, close_price, reason) ==
    LET q == MarkClosed(p, close_price, reason)
    IN [available_balance |-> L.available_balance + p.quantity * close_price,
        current_balance |-> L.current_balance + q.profit_loss,
        positions |-> RemoveId(L.positions, p.id),
        closed_positions |-> Append(L.closed_positions, q)]

\* The SL/TP test of the candle loop.
BTCloseDecision(p, current_price) ==
    IF p.direction = "UP"
    THEN IF current_price <= p.stop_loss
         THEN [should_close |-> TRUE, close_reason |-> "stop_loss", price |-> p.stop_loss]
         ELSE IF current_price >= p.take_profit
         THEN [should_close |-> TRUE, close_reason |-> "take_profit", price |-> p.take_profit]
         ELSE [should_close |-> FALSE, close_reason |-> "None", price |-> current_price]
    ELSE IF current_price >= p.stop_loss
         THEN [should_close |-> TRUE, close_reason |-> "stop_loss", price |-> p.stop_loss]
         ELSE IF current_price <= p.take_profit
         THEN [should_close |-> TRUE, close_reason |-> "take_profit", price |-> p.take_profit]
         ELSE [should_close |-> FALSE, close_reason |-> "None", price |-> current_price]

\* The same loop run over the list itself instead of a copy of it: every
\* removal shifts the list under the iterator, which skips the next element.
RECURSIVE CloseEveryOther(_, _, _, _)
CloseEveryOther(L, snapshot, price, reason) ==
    IF snapshot = <<>> THEN L
    ELSE CloseEveryOther(BTClosePosition(L, Head(snapshot), price, reason),
                         IF Len(snapshot) >= 2 THEN Tail(Tail(snapshot)) ELSE <<>>,
                         price, reason)

\* "for position in self.positions[:]: await self.close_position(position, price, reason)"
RECURSIVE CloseAll(_, _, _, _)
CloseAll(L, snapshot, price, reason) ==
    IF snapshot = <<>> THEN L
    ELSE CloseAll(BTClosePosition(L, Head(snapshot), price, reason),
                  Tail(snapshot), price, reason)

\* A monitoring loop over the list itself: the position after one that was
\* removed is stepped over.
RECURSIVE MonitorAllLive(_, _, _)
MonitorAllLive(L, snapshot, current_price) ==
    IF snapshot = <<>> THEN L
    ELSE LET d == BTCloseDecision(Head(snapshot), current_price)
         IN IF d.should_close
            THEN MonitorAllLive(BTClosePosition(L, Head(snapshot), d.price,
                                                d.close_reason),
                                IF Len(snapshot) >= 2 THEN Tail(Tail(snapshot))
                                                      ELSE <<>>,
                                current_price)
            ELSE MonitorAllLive(L, Tail(snapshot), current_price)

\* The monitoring loop of one candle over the snapshot self.positions[:].
RECURSIVE MonitorAll(_, _, _)
MonitorAll(L, snapshot, current_price) ==
    IF snapshot = <<>> THEN L
    ELSE LET d == BTCloseDecision(Head(snapshot), current_price)
         IN MonitorAll(IF d.should_close
                       THEN BTClosePosition(L, Head(snapshot), d.price, d.close_reason)
                       ELSE L,
                       Tail(snapshot), current_price)

\* ManualBacktester.open_position; FALSE when it returns None.
BTOpenAccepted(entry_price) ==
    /\ ~(available_balance < Rub(MIN_BALANCE))
    /\ ~(MaxLots(available_balance, entry_price, 1) < 1)

BTOpenPosition(direction, entry_price, entry_time, atr_value) ==
    LET stops == AdaptiveStops(entry_price, atr_value, direction)
        quantity == MaxLots(available_balance, entry_price, 1)
        position_cost == quantity * entry_price
    IN /\ trade_counter' = trade_counter + 1
       /\ positions' = Append(positions,
              NewPosition(trade_counter + 1, direction, quantity, entry_price,
                          stops.stop_loss, stops.take_profit, "manual_backtest",
                          entry_time))
       /\ available_balance' = available_balance - position_cost
       /\ UNCHANGED <<initial_capital, current_balance, closed_positions>>

\* ManualBacktester.open_position on the ledger L of a run of its own; id is
\* the number of the position.  L is returned as it is when open_position
\* returns None.
OpenOn(L, id, direction, entry_price, entry_time, atr_value) ==
    LET stops == AdaptiveStops(entry_price, atr_value, direction)
        quantity == MaxLots(L.available_balance, entry_price, 1)
        position_cost == quantity * entry_price
    IN IF L.available_balance < Rub(MIN_BALANCE) \/ quantity < 1
       THEN L
       ELSE [L EXCEPT !.available_balance = @ - position_cost,
                      !.positions = Append(@,
                          NewPosition(id, direction, quantity, entry_price,
                                      stops.stop_loss, stops.take_profit,
                                      "manual_backtest", entry_time))]

\* The head of the loop body: the next candle is read, trading hours are
\* checked and, in the forced-close window, the open positions are closed.
BTNextCandle ==
    /\ mode = "backtest" /\ bt_pc = "candle" /\ idx < MaxCandles
    /\ \E t \in Times, price \in Prices, signal \in Contexts \cup {"none"} :
          /\ t > row.timestamp
          /\ row' = [timestamp |-> t, close |-> price, signal |-> signal]
          /\ idx' = idx + 1
          /\ IF ~IsTradingHours(t)
             THEN /\ bt_pc' = "candle"
                  /\ UNCHANGED ledger
             ELSE IF ShouldClosePositions(t) /\ positions # <<>>
             THEN /\ bt_pc' = "candle"
                  /\ SetLedger(CloseAll(Ledger, positions, price, "end_of_session"))
                  /\ UNCHANGED <<initial_capital, trade_counter>>
             ELSE /\ bt_pc' = "monitor"
                  /\ UNCHANGED ledger
    /\ UNCHANGED <<mode, paper_vars, atr, error, pnl_call, ext>>

\* The monitoring part of the loop body.
BTMonitor ==
    /\ mode = "backtest" /\ bt_pc = "monitor"
    /\ bt_pc' = "signal"
    /\ SetLedger(MonitorAll(Ledger, positions, row.close))
    /\ UNCHANGED <<mode, initial_capital, trade_counter, paper_vars, atr, idx, row,
                   error, pnl_call, ext>>

\* The signal part of the loop body.
BTSignal ==
    /\ mode = "backtest" /\ bt_pc = "signal"
    /\ bt_pc' = "candle"
    /\ IF /\ row.signal \in {"POSITIVE", "NEGATIVE"}
          /\ Len(positions) < MAX_OPEN_POSITIONS
          /\ BTOpenAccepted(row.close)
       THEN BTOpenPosition(IF row.signal = "POSITIVE" THEN "UP" ELSE "DOWN",
                           row.close, row.timestamp, atr)
       ELSE UNCHANGED ledger
    /\ UNCHANGED <<mode, paper_vars, atr, idx, row, error, pnl_call, ext>>

\* After the loop: the remaining positions are closed at the last close.
BTFinish ==
    /\ mode = "backtest" /\ bt_pc = "candle" /\ idx >= 1
    /\ bt_pc' = "done"
    /\ SetLedger(CloseAll(Ledger, positions, row.close, "backtest_end"))
    /\ UNCHANGED <<mode, initial_capital, trade_counter, paper_vars, atr, idx, row,
                   error, pnl_call, ext>>

\* run_manual_backtest before the loop: calculate_atr over the whole series
\* returns None when it has fewer than ATR_PERIOD + 1 candles, and the run
\* returns {'error': 'ATR calculation failed'} without reading a candle.
BTStart ==
    /\ mode = "backtest" /\ bt_pc = "start"
    /\ IF n_candles < ATR_PERIOD + 1
       THEN /\ bt_pc' = "failed"
            /\ error' = "ATR calculation failed"
            /\ atr' = atr
       ELSE /\ bt_pc' = "candle"
            /\ error' = error
            /\ atr' \in ATRs
    /\ UNCHANGED <<mode, ledger, paper_vars, idx, row, pnl_call, ext>>

BacktestNext ==
    \/ BTNextCandle
    \/ BTMonitor
    \/ BTSignal
    \/ BTFinish

-----------------------------------------------------------------------------
(* Position.calculate_pnl called directly on one position.                 *)

PnlPrices == {Rub(50), Rub(99), Rub(100), Rub(101), Rub(400)}

CalculatePnlCall ==
    /\ mode = "pnl"
    /\ \E current_price \in PnlPrices :
          /\ pnl_call' = <<current_price, PnlValue(positions[1], current_price)>>
          /\ positions' = <<CalculatePnl(positions[1], current_price)>>
    /\ UNCHANGED <<mode, initial_capital, current_balance, available_balance,
                   closed_positions, trade_counter, paper_vars, bt_vars, error, ext>>

-----------------------------------------------------------------------------
(* TechnicalAnalyzer called directly (technical_analysis.py).  Fibonacci   *)
(* levels are kept multiplied by 1000, percentages are per mille, so that  *)
(* range x 0.382 and level x 0.3% are exact.                               *)

FIBONACCI_ENTRY_LEVELS == <<382, 500, 618>>
FIBONACCI_TOLERANCE_X10 == 3

\* The keys '0.0' .. '100.0' of fib_levels in the order of the dict.
FibKeys == <<0, 236, 382, 500, 618, 786, 1000>>

\* A calculate_fibonacci_levels whose retracements go down whatever the trend.
FibonacciLevelsAlwaysDown(trend_start_price, trend_end_price, is_uptrend) ==
    LET price_range == Abs(trend_end_price - trend_start_price)
    IN [k \in {FibKeys[i] : i \in 1..Len(FibKeys)} |->
           IF k = 0 THEN trend_end_price * 1000
           ELSE IF k = 1000 THEN trend_start_price * 1000
           ELSE trend_end_price * 1000 - price_range * k]

\* calculate_fibonacci_levels: the dict fib_levels.
FibonacciLevels(trend_start_price, trend_end_price, is_uptrend) ==
    LET price_range == Abs(trend_end_price - trend_start_price)
    IN [k \in {FibKeys[i] : i \in 1..Len(FibKeys)} |->
           IF k = 0 THEN trend_end_price * 1000
           ELSE IF k = 1000 THEN trend_start_price * 1000
           ELSE IF is_uptrend THEN trend_end_price * 1000 - price_range * k
                              ELSE trend_end_price * 1000 + price_range * k]

\* detect_pullback returned None.
NoPullback == [detected |-> FALSE]

\* abs(current_price - level_price) <= level_price * tolerance_percent,
\* behind "if not level_price: continue".  The left side is an integer, so
\* rounding the tolerance down changes nothing.
LevelMatches(current_price, level_price) ==
    /\ level_price # 0
    /\ Abs(current_price * 1000 - level_price)
          <= (level_price * FIBONACCI_TOLERANCE_X10) \div 1000

\* A detect_pullback that returns the matching level nearest to the price.
DetectPullbackClosest(current_price, fibonacci_levels) ==
    LET matching == {i \in 1..Len(FIBONACCI_ENTRY_LEVELS) :
                        LevelMatches(current_price,
                                     fibonacci_levels[FIBONACCI_ENTRY_LEVELS[i]])}
        dist(i) == Abs(current_price * 1000
                         - fibonacci_levels[FIBONACCI_ENTRY_LEVELS[i]])
    IN IF matching = {} THEN NoPullback
       ELSE LET i == CHOOSE i \in matching :
                        \A j \in matching : dist(i) < dist(j) \/ (dist(i) = dist(j) /\ i <= j)
            IN [detected |-> TRUE,
                level |-> FIBONACCI_ENTRY_LEVELS[i],
                level_price |-> fibonacci_levels[FIBONACCI_ENTRY_LEVELS[i]]]

\* detect_pullback: the loop over Config.FIBONACCI_ENTRY_LEVELS returns at
\* the first level that matches.
DetectPullback(current_price, fibonacci_levels) ==
    LET matching == {i \in 1..Len(FIBONACCI_ENTRY_LEVELS) :
                        LevelMatches(current_price,
                                     fibonacci_levels[FIBONACCI_ENTRY_LEVELS[i]])}
    IN IF matching = {} THEN NoPullback
       ELSE LET i == CHOOSE i \in matching : \A j \in matching : i <= j
            IN [detected |-> TRUE,
                level |-> FIBONACCI_ENTRY_LEVELS[i],
                level_price |-> fibonacci_levels[FIBONACCI_ENTRY_LEVELS[i]]]

\* Prices around 100.00 a few tenths of a percent apart, and one far away.
FibPrices == {9900, 9945, 9950, 9962, 10000, 10050, 10100, 10500}
StopATRs == {0, 50, 100, 200, 1000}

CalculateAdaptiveStopsCall ==
    /\ mode = "analyzer"
    /\ \E entry_price \in Prices, atr_value \in StopATRs, direction \in {"UP", "DOWN"} :
          call' = [fn |-> "calculate_adaptive_stops",
                   entry_price |-> entry_price, atr |-> atr_value,
                   direction |-> direction,
                   result |-> AdaptiveStops(entry_price, atr_value, direction)]
    /\ UNCHANGED <<mode, ledger, paper_vars, bt_vars, error, pnl_call,
                   twin, n_candles, handler, failed_fetches, live, error_handler>>

CalculateFibonacciLevelsCall ==
    /\ mode = "analyzer"
    /\ \E trend_start_price \in FibPrices, trend_end_price \in FibPrices,
          is_uptrend \in BOOLEAN :
          call' = [fn |-> "calculate_fibonacci_levels",
                   trend_start_price |-> trend_start_price,
                   trend_end_price |-> trend_end_price,
                   is_uptrend |-> is_uptrend,
                   result |-> FibonacciLevels(trend_start_price, trend_end_price,
                                              is_uptrend)]
    /\ UNCHANGED <<mode, ledger, paper_vars, bt_vars, error, pnl_call,
                   twin, n_candles, handler, failed_fetches, live, error_handler>>

\* detect_pullback on levels that calculate_fibonacci_levels has returned.
DetectPullbackCall ==
    /\ mode = "analyzer"
    /\ call # <<>> /\ call.fn = "calculate_fibonacci_levels"
    /\ \E current_price \in FibPrices :
          call' = [fn |-> "detect_pullback",
                   current_price |-> current_price,
                   fibonacci_levels |-> call.result,
                   result |-> DetectPullback(current_price, call.result)]
    /\ UNCHANGED <<mode, ledger, paper_vars, bt_vars, error, pnl_call,
                   twin, n_candles, handler, failed_fetches, live, error_handler>>

AnalyzerNext ==
    \/ CalculateAdaptiveStopsCall
    \/ CalculateFibonacciLevelsCall
    \/ DetectPullbackCall

-----------------------------------------------------------------------------
(* TradingBot.handle_telegram_message (main.py) with its confirmation wait *)
(* (MarketMonitor.wait_for_pullback, monitor_range_trading_opportunity)    *)
(* taken poll by poll.  One message is handled at a time.                  *)

MaxSignals == 4     \* messages handled in one session
MaxWait == 3        \* the timeout of a wait, in seconds
UPDATE_INTERVAL == 1
MIN_TREND_MOVEMENT_X10 == 5

\* The sleep of one poll and the time its price fetch takes, in seconds.
PollTimes == {UPDATE_INTERVAL, UPDATE_INTERVAL + 1}

ENABLE_RANGE_TRADING == TRUE

\* A direction_map that sends every context to DOWN.
DirectionOfAlwaysDown(context) == "DOWN"

\* _parse_ai_response: direction_map[context].
DirectionOf(context) ==
    IF context = "POSITIVE" THEN "UP"
    ELSE IF context = "NEGATIVE" THEN "DOWN"
    ELSE "NEUTRAL"

\* The trend wait_for_pullback reads off the candles and the current price;
\* the side it looks on is the expected direction.
Trends == {[direction |-> "UP", trend_start_price |-> 9900, trend_end_price |-> 10000],
           [direction |-> "UP", trend_start_price |-> 9970, trend_end_price |-> 10000],
           [direction |-> "DOWN", trend_start_price |-> 10100, trend_end_price |-> 10000]}

\* The daily range of the market context: 100.00 .. 105.00.
SignalRanges == {[low |-> Rub(100), high |-> Rub(105)]}

SignalLotSizes == {10, 100}

\* Polled prices: at a Fibonacci level of either trend and in the buy zone,
\* between the zones, and in the sell zone.
WaitPrices == {9950, 10050, 10200, Rub(400)}

\* trend_movement < Config.MIN_TREND_MOVEMENT
TrendTooSmall(t) ==
    IF t.direction = "UP"
    THEN (t.trend_end_price - t.trend_start_price) * 1000
            < MIN_TREND_MOVEMENT_X10 * t.trend_start_price
    ELSE (t.trend_start_price - t.trend_end_price) * 1000
            < MIN_TREND_MOVEMENT_X10 * t.trend_start_price

\* A loop that gives up after its first poll.
WaitExpiredAfterOnePoll(elapsed) == elapsed >= UPDATE_INTERVAL

\* The loop condition (datetime.now() - start_time).seconds < timeout fails.
WaitExpired(elapsed) == elapsed >= MaxWait

\* (datetime.now() - start_time).seconds after one more poll.
Elapsed(elapsed, dt) == elapsed + dt

\* The handler has returned, or was cancelled.
Done(h, outcome, polled, elapsed) ==
    [pc |-> "done", signal |-> h.signal, context |-> h.context, kind |-> h.kind,
     outcome |-> outcome,
     polled |-> polled, elapsed |-> elapsed]

\* handle_telegram_message up to the first poll of its wait.  The wait
\* returns None at once for a trend that moved too little and for a daily
\* range that is not valid.
BeginWait ==
    /\ mode = "paper" /\ run_pc = "running"
    /\ handler.pc \in {"idle", "done"} /\ handler.signal < MaxSignals
    /\ \E lot_size \in SignalLotSizes :
          \/ \E context \in {"POSITIVE", "NEGATIVE"}, t \in Trends,
                atr_value \in PullbackATRs :
                LET h == [pc |-> "waiting", signal |-> handler.signal + 1,
                          context |-> context,
                          kind |-> "pullback", direction |-> DirectionOf(context),
                          fibonacci_levels |->
                              FibonacciLevels(t.trend_start_price, t.trend_end_price,
                                              t.direction = "UP"),
                          atr |-> atr_value, lot_size |-> lot_size, elapsed |-> 0]
                IN /\ t.direction = DirectionOf(context)
                   /\ handler' = IF TrendTooSmall(t) THEN Done(h, "no_result", NoPrice, 0)
                                                     ELSE h
          \/ \E range \in SignalRanges, valid \in BOOLEAN :
                LET h == [pc |-> "waiting", signal |-> handler.signal + 1,
                          context |-> "NEUTRAL",
                          kind |-> "range", range |-> range,
                          lot_size |-> lot_size, elapsed |-> 0]
                IN /\ ENABLE_RANGE_TRADING
                   /\ handler' = IF ~valid THEN Done(h, "no_result", NoPrice, 0) ELSE h
    /\ UNCHANGED <<mode, ledger, paper_vars, bt_vars, error, pnl_call,
                   call, twin, n_candles, failed_fetches, live, error_handler>>

\* What one poll of the wait finds at current_price.
PollResult(h, current_price) ==
    IF current_price = NoPrice THEN [success |-> FALSE]
    ELSE IF h.kind = "pullback"
    THEN IF DetectPullback(current_price, h.fibonacci_levels).detected
         THEN [success |-> TRUE, direction |-> h.direction,
               entry_price |-> current_price, atr |-> h.atr]
         ELSE [success |-> FALSE]
    ELSE IF InBuyZone(h.range, current_price) \/ InSellZone(h.range, current_price)
         THEN [success |-> TRUE] @@ RangeResult(h.range, current_price)
         ELSE [success |-> FALSE]

\* open_pullback_position returns a position.
PullbackAccepted(direction, entry_price, atr_value, lot_size) ==
    LET stops == AdaptiveStops(entry_price, atr_value, direction)
    IN /\ CanOpenPosition(Len(positions), available_balance, current_balance,
                          initial_capital)
       /\ ~RiskRewardTooLow(stops.take_distance, stops.stop_distance)
       /\ ~(MaxLots(available_balance, entry_price, lot_size) < 1)

\* open_range_trading_position returns a position.
RangeAccepted(entry_price, stop_loss, take_profit, lot_size) ==
    /\ CanOpenPosition(Len(positions), available_balance, current_balance,
                       initial_capital)
    /\ ~RiskRewardTooLow(Abs(take_profit - entry_price), Abs(entry_price - stop_loss))
    /\ ~(MaxLots(available_balance, entry_price, lot_size) < 1)

\* One turn of the loop of the wait: sleep, fetch the price, test it.  On a
\* match the wait returns and the handler goes on to the engine, with no
\* suspension point in between.
WaitPoll ==
    /\ mode = "paper" /\ handler.pc = "waiting" /\ ~WaitExpired(handler.elapsed)
    /\ \E dt \in PollTimes, current_price \in WaitPrices \cup {NoPrice} :
          LET elapsed == Elapsed(handler.elapsed, dt)
              r == PollResult(handler, current_price)
          IN IF ~r.success
             THEN /\ handler' = [handler EXCEPT !.elapsed = elapsed]
                  /\ UNCHANGED ledger
             ELSE IF handler.kind = "pullback"
             THEN IF PullbackAccepted(r.direction, r.entry_price, r.atr,
                                      handler.lot_size)
                  THEN /\ OpenPullbackPosition(r.direction, r.entry_price, r.atr,
                                               handler.lot_size)
                       /\ handler' = Done(handler, "opened", current_price, elapsed)
                  ELSE /\ handler' = Done(handler, "rejected", current_price, elapsed)
                       /\ UNCHANGED ledger
             ELSE IF RangeAccepted(r.entry_price, r.stop_loss, r.take_profit,
                                   handler.lot_size)
                  THEN /\ OpenRangeTradingPosition(r.direction, r.entry_price,
                                                   r.stop_loss, r.take_profit,
                                                   handler.lot_size)
                       /\ handler' = Done(handler, "opened", current_price, elapsed)
                  ELSE /\ handler' = Done(handler, "rejected", current_price, elapsed)
                       /\ UNCHANGED ledger
    /\ UNCHANGED <<mode, paper_vars, bt_vars, error, pnl_call,
                   call, twin, n_candles, failed_fetches, live, error_handler>>

\* The loop condition fails: the wait returns None and the handler logs it.
WaitTimeout ==
    /\ mode = "paper" /\ handler.pc = "waiting" /\ WaitExpired(handler.elapsed)
    /\ handler' = Done(handler, "no_result", NoPrice, handler.elapsed)
    /\ UNCHANGED <<mode, ledger, paper_vars, bt_vars, error, pnl_call,
                   call, twin, n_candles, failed_fetches, live, error_handler>>

\* The handler's task is cancelled while it sleeps or fetches: CancelledError
\* is not an Exception and leaves handle_telegram_message.
WaitCancel ==
    /\ mode = "paper" /\ handler.pc = "waiting"
    /\ handler' = Done(handler, "cancelled", NoPrice, handler.elapsed)
    /\ UNCHANGED <<mode, ledger, paper_vars, bt_vars, error, pnl_call,
                   call, twin, n_candles, failed_fetches, live, error_handler>>

SignalsNext ==
    \/ BeginWait
    \/ WaitPoll
    \/ WaitTimeout
    \/ WaitCancel

-----------------------------------------------------------------------------
(* Two ManualBacktester instances run on the same candles and signals.     *)
(* Each run reads its own wall clock: close_position stamps                *)
(* position.close_time with datetime.now().                                *)

MaxTwinCandles == 3

\* datetime.now() as the two runs may read it.
WallClocks == {1440 + 12 * 60, 1440 + 23 * 60 + 45}

\* ManualBacktester.__init__
FreshRun ==
    [L |-> [available_balance |-> Rub(BACKTEST_INITIAL_CAPITAL),
            current_balance |-> Rub(BACKTEST_INITIAL_CAPITAL),
            positions |-> <<>>, closed_positions |-> <<>>],
     opened |-> 0, equity_curve |-> <<>>, close_times |-> <<>>]

\* The sum of pos.quantity * current_price over the open positions.
RECURSIVE PositionsValue(_, _)
PositionsValue(s, current_price) ==
    IF s = <<>> THEN 0
    ELSE Head(s).quantity * current_price + PositionsValue(Tail(s), current_price)

\* The run after its ledger has become L at wall-clock time clock: every
\* position closed on the way was stamped with the clock.
Stamped(run, L, clock) ==
    [run EXCEPT !.L = L,
                !.opened = IF Len(L.positions) + Len(L.closed_positions)
                                > Len(run.L.positions) + Len(run.L.closed_positions)
                           THEN @ + 1 ELSE @,
                !.close_times = @ \o [i \in 1..(Len(L.closed_positions)
                                               - Len(run.L.closed_positions)) |-> clock]]

\* The body of the loop over the candles.
LoopBody(run, current_time, current_price, signal, atr_value, clock) ==
    LET point == [timestamp |-> current_time,
                  equity |-> run.L.available_balance
                             + PositionsValue(run.L.positions, current_price)]
        r == [run EXCEPT !.equity_curve = Append(@, point)]
        monitored == MonitorAll(r.L, r.L.positions, current_price)
    IN IF ~IsTradingHours(current_time) THEN r
       ELSE IF ShouldClosePositions(current_time) /\ r.L.positions # <<>>
       THEN Stamped(r, CloseAll(r.L, r.L.positions, current_price, "end_of_session"),
                    clock)
       ELSE IF signal \in {"POSITIVE", "NEGATIVE"}
               /\ Len(monitored.positions) < MAX_OPEN_POSITIONS
       THEN Stamped(r, OpenOn(monitored, r.opened + 1,
                              IF signal = "POSITIVE" THEN "UP" ELSE "DOWN",
                              current_price, current_time, atr_value),
                    clock)
       ELSE Stamped(r, monitored, clock)

\* A loop that takes the time of the candle from the wall clock.
RunCandleOnWallClock(run, candle, atr_value, clock) ==
    LoopBody(run, clock, candle.close, candle.signal, atr_value, clock)

\* One candle of run_manual_backtest: current_time = row['timestamp'],
\* current_price = row['close'].
RunCandle(run, candle, atr_value, clock) ==
    LoopBody(run, candle.timestamp, candle.close, candle.signal, atr_value, clock)

\* After the loop: the remaining positions are closed at the last close.
RunFinish(run, candle, clock) ==
    Stamped(run, CloseAll(run.L, run.L.positions, candle.close, "backtest_end"), clock)

\* Both runs take the next candle of the series.
TwinCandle ==
    /\ mode = "twin" /\ bt_pc = "candle" /\ idx < MaxTwinCandles
    /\ \E t \in Times, price \in Prices, signal \in Contexts \cup {"none"},
          clock1 \in WallClocks, clock2 \in WallClocks :
          /\ t > row.timestamp
          /\ row' = [timestamp |-> t, close |-> price, signal |-> signal]
          /\ twin' = <<RunCandle(twin[1], row', atr, clock1),
                       RunCandle(twin[2], row', atr, clock2)>>
    /\ idx' = idx + 1
    /\ UNCHANGED <<mode, ledger, paper_vars, atr, bt_pc, error, pnl_call,
                   call, n_candles, handler, failed_fetches, live, error_handler>>

\* Both runs have come to the end of the series.
TwinFinish ==
    /\ mode = "twin" /\ bt_pc = "candle" /\ idx >= 1
    /\ bt_pc' = "done"
    /\ \E clock1 \in WallClocks, clock2 \in WallClocks :
          twin' = <<RunFinish(twin[1], row, clock1), RunFinish(twin[2], row, clock2)>>
    /\ UNCHANGED <<mode, ledger, paper_vars, atr, idx, row, error, pnl_call,
                   call, n_candles, handler, failed_fetches, live, error_handler>>

TwinNext ==
    \/ TwinCandle
    \/ TwinFinish

-----------------------------------------------------------------------------
(* BacktestEngine.get_statistics (backtester.py) called on a closed        *)
(* history.  Amounts are whole roubles here; a drawdown is kept as the     *)
(* fraction num / den, compared by cross-multiplication, so that the       *)
(* running maximum is exact.                                               *)

MaxClosed == 4          \* closed positions of a history handed to get_statistics

StatsCapital == 1000
StatsPnls == {0 - 300, 0 - 100, 0, 100, 200}

\* a / b > c / d for positive denominators.
FractionGreater(a, c) == a.num * c.den > c.num * a.den

\* sum(p.profit_loss for p in self.closed_positions if p.close_time <= t)
RECURSIVE PnlUpTo(_, _)
PnlUpTo(s, t) ==
    IF s = <<>> THEN 0
    ELSE (IF Head(s).close_time <= t THEN Head(s).profit_loss ELSE 0)
         + PnlUpTo(Tail(s), t)

\* The loop of get_statistics over rest, a suffix of self.closed_positions:
\* acc = [peak_balance, max_drawdown].
RECURSIVE DrawdownLoop(_, _, _, _)
DrawdownLoop(initial, closed, rest, acc) ==
    IF rest = <<>> THEN acc.max_drawdown
    ELSE LET balance_after == initial + PnlUpTo(closed, Head(rest).close_time)
             peak_balance == IF balance_after > acc.peak_balance
                             THEN balance_after ELSE acc.peak_balance
             drawdown == [num |-> peak_balance - balance_after, den |-> peak_balance]
         IN DrawdownLoop(initial, closed, Tail(rest),
                [peak_balance |-> peak_balance,
                 max_drawdown |-> IF FractionGreater(drawdown, acc.max_drawdown)
                                  THEN drawdown ELSE acc.max_drawdown])

\* 'max_drawdown' of get_statistics, as a fraction of the peak.
MaxDrawdown(initial, closed) ==
    DrawdownLoop(initial, closed, closed,
                 [peak_balance |-> initial, max_drawdown |-> [num |-> 0, den |-> 1]])

\* close_position appends a position closed at the current time of the
\* backtest; update_positions closes several positions at one current_time.
StatsClose ==
    /\ mode = "stats" /\ Len(closed_positions) < MaxClosed
    /\ \E profit_loss \in StatsPnls, close_time \in {now, now + 1} :
          /\ close_time <= MaxClosed
          /\ now' = close_time
          /\ trade_counter' = trade_counter + 1
          /\ closed_positions' = Append(closed_positions,
                 [id |-> trade_counter + 1, is_closed |-> TRUE,
                  profit_loss |-> profit_loss, close_time |-> close_time])
          /\ current_balance' = current_balance + profit_loss
    /\ UNCHANGED <<mode, initial_capital, available_balance, positions, mon_queue,
                   run_pc, shut_queue, bt_vars, error, pnl_call, ext>>

\* get_statistics is called on the history.
GetStatisticsCall ==
    /\ mode = "stats" /\ closed_positions # <<>>
    /\ call' = [fn |-> "get_statistics",
                total_trades |-> Len(closed_positions),
                max_drawdown |-> MaxDrawdown(initial_capital, closed_positions)]
    /\ UNCHANGED <<mode, ledger, paper_vars, bt_vars, error, pnl_call,
                   twin, n_candles, handler, failed_fetches, live, error_handler>>

StatsNext == StatsClose \/ GetStatisticsCall

-----------------------------------------------------------------------------
(* The trade counts of get_statistics in the three engines.                *)

\* sum(1 for p in self.closed_positions if p.profit_loss > 0)
WinningTrades(closed) ==
    Cardinality({i \in 1..Len(closed) : closed[i].profit_loss > 0})

\* PaperTradingEngine and BacktestEngine: 'losing_trades': total_trades - winning_trades
PaperStatistics(closed) ==
    [total_trades |-> Len(closed),
     winning_trades |-> WinningTrades(closed),
     losing_trades |-> Len(closed) - WinningTrades(closed)]

\* ManualBacktester: losing_trades = [p for p in ... if p.profit_loss < 0]
ManualStatistics(closed) ==
    [total_trades |-> Len(closed),
     winning_trades |-> WinningTrades(closed),
     losing_trades |-> Cardinality({i \in 1..Len(closed) : closed[i].profit_loss < 0})]

\* get_statistics of the engine that is running.
Statistics ==
    IF mode = "backtest" THEN ManualStatistics(closed_positions)
                         ELSE PaperStatistics(closed_positions)

-----------------------------------------------------------------------------
(* error_handler.py: MarketConnectionMonitor and SafeApiWrapper.           *)

RETRY_DELAY == 5                    \* Config.RETRY_DELAY, seconds
CLOSE_ON_CONNECTION_LOSS == TRUE    \* Config.CLOSE_ON_CONNECTION_LOSS

MaxFailedUpdates == 5   \* failed updates in a row the monitor is fed
MaxCallbackTasks == 4   \* callback tasks created over the life of the monitor

\* The values of the price argument (None, or a price) and of the error
\* argument (None, or a message) of update_connection.
UpdatePrices == {NoPrice, Rub(100), Rub(400)}
UpdateErrors == {"None", "timeout", "unavailable"}

\* What the wrapped function of a safe_call does in one invocation, and
\* the values it can return.
CallOutcomes == {"ok", "timeout", "exception"}
CallValues == {NoPrice, Rub(100), Rub(400)}

\* ConnectionStatus as the dataclass creates it.
ConnectionStatus ==
    [is_connected |-> TRUE, failed_attempts |-> 0,
     last_price |-> NoPrice, last_error |-> "None"]

\* No safe_call has been made.
NoSafeCall ==
    [pc |-> "idle", attempt |-> 0, invocations |-> <<>>, slept |-> 0,
     result |-> NoPrice]

\* A monitor with its callback, no callback task yet, and no safe_call.
NoErrorHandler ==
    [status |-> ConnectionStatus, on_connection_loss |-> TRUE, tasks |-> 0,
     safe_call |-> NoSafeCall]

\* MarketConnectionMonitor.update_connection(price, error): the status and
\* the number of callback tasks after the call.
UpdateConnection(eh, price, err) ==
    IF err # "None"
    THEN LET failed == eh.status.failed_attempts + 1
             lost == failed >= MAX_RETRY_ATTEMPTS
         IN  [eh EXCEPT
                !.status.failed_attempts = failed,
                !.status.last_error = err,
                !.status.is_connected = IF lost THEN FALSE ELSE @,
                !.tasks = IF /\ lost
                             /\ eh.on_connection_loss
                             /\ CLOSE_ON_CONNECTION_LOSS
                          THEN @ + 1 ELSE @]
    ELSE [eh EXCEPT
            !.status.is_connected = TRUE,
            !.status.failed_attempts = 0,
            !.status.last_error = "None",
            !.status.last_price = IF price # NoPrice THEN price ELSE @]

\* The price source reports a failure to the monitor.
UpdateConnectionError ==
    /\ mode = "error_handler"
    /\ error_handler.status.failed_attempts < MaxFailedUpdates
    /\ error_handler.tasks < MaxCallbackTasks
    /\ \E price \in UpdatePrices, err \in UpdateErrors \ {"None"} :
          error_handler' = UpdateConnection(error_handler, price, err)
    /\ UNCHANGED <<mode, ledger, paper_vars, bt_vars, error, pnl_call, call,
                   twin, n_candles, handler, failed_fetches, live>>

\* The price source reports a successful update to the monitor.
UpdateConnectionOk ==
    /\ mode = "error_handler"
    /\ \E price \in UpdatePrices :
          error_handler' = UpdateConnection(error_handler, price, "None")
    /\ UNCHANGED <<mode, ledger, paper_vars, bt_vars, error, pnl_call, call,
                   twin, n_candles, handler, failed_fetches, live>>

\* A loop that sleeps after every failed attempt, the last one included.
RetriesLeftAlways(attempt) == attempt < MAX_RETRY_ATTEMPTS

\* safe_call sleeps after a failed attempt if this holds.
RetriesLeft(attempt) == attempt < MAX_RETRY_ATTEMPTS - 1

\* The for loop of safe_call moves on: the next attempt, or the return of
\* None once range(MAX_RETRY_ATTEMPTS) is used up.
NextAttempt(sc) ==
    IF sc.attempt + 1 < MAX_RETRY_ATTEMPTS
    THEN [sc EXCEPT !.pc = "attempt", !.attempt = @ + 1]
    ELSE [sc EXCEPT !.pc = "returned", !.result = NoPrice]

\* SafeApiWrapper.safe_call(func) is called.
SafeCallBegin ==
    /\ mode = "error_handler"
    /\ error_handler.safe_call.pc \in {"idle", "returned"}
    /\ error_handler' = [error_handler EXCEPT
                            !.safe_call = [NoSafeCall EXCEPT !.pc = "attempt"]]
    /\ UNCHANGED <<mode, ledger, paper_vars, bt_vars, error, pnl_call, call,
                   twin, n_candles, handler, failed_fetches, live>>

\* One pass of the loop body: func is invoked under wait_for and returns a
\* value, runs into the timeout or raises.
SafeCallAttempt ==
    /\ mode = "error_handler"
    /\ error_handler.safe_call.pc = "attempt"
    /\ \E outcome \in CallOutcomes, value \in CallValues :
          LET sc == error_handler.safe_call
              invoked == [sc EXCEPT
                            !.invocations =
                                Append(@, [outcome |-> outcome,
                                           value |-> IF outcome = "ok"
                                                     THEN value ELSE NoPrice])]
          IN  error_handler' =
                [error_handler EXCEPT !.safe_call =
                    IF outcome = "ok"
                    THEN [invoked EXCEPT !.pc = "returned", !.result = value]
                    ELSE IF RetriesLeft(sc.attempt)
                         THEN [invoked EXCEPT !.pc = "sleeping"]
                         ELSE NextAttempt(invoked)]
    /\ UNCHANGED <<mode, ledger, paper_vars, bt_vars, error, pnl_call, call,
                   twin, n_candles, handler, failed_fetches, live>>

\* asyncio.sleep(RETRY_DELAY) is over.
SafeCallWake ==
    /\ mode = "error_handler"
    /\ error_handler.safe_call.pc = "sleeping"
    /\ error_handler' =
          [error_handler EXCEPT !.safe_call =
              NextAttempt([error_handler.safe_call EXCEPT
                              !.slept = @ + RETRY_DELAY])]
    /\ UNCHANGED <<mode, ledger, paper_vars, bt_vars, error, pnl_call, call,
                   twin, n_candles, handler, failed_fetches, live>>

ErrorHandlerNext ==
    \/ UpdateConnectionError
    \/ UpdateConnectionOk
    \/ SafeCallBegin
    \/ SafeCallAttempt
    \/ SafeCallWake

-----------------------------------------------------------------------------
(* The live TradingEngine.  Telethon starts the handler of every new       *)
(* message as a task of its own, and the monitoring loop is one more task: *)
(* they interleave at every await.                                         *)

MaxLiveHandlers == 4    \* signal handlers that run at the same time in live mode

LiveHandlers == 1..MaxLiveHandlers

\* No handler has reached the engine, no close order is under way and no
\* closing order has been handed to the broker.  close_orders lists the
\* positions of the closing orders that did not raise.
NoLive == [task |-> [h \in LiveHandlers |-> [pc |-> "idle"]], closing |-> <<>>,
           close_orders |-> <<>>]

\* The direction of the signals that reach the live engine.
LiveDirections == {"UP"}

\* What the broker may report as the balance of the account.
LiveBalances == {Rub(BACKTEST_INITIAL_CAPITAL), Rub(5000)}

\* A handler whose wait has confirmed the pullback calls
\* can_open_position and then open_pullback_position, which runs up to its
\* "await self.client.orders.post_order(...)" or returns None before it.
LiveOpenPullbackPosition(h) ==
    /\ mode = "live" /\ run_pc = "running" /\ live.task[h].pc = "idle"
    /\ \E direction \in LiveDirections, entry_price \in EntryPrices,
          atr_value \in PullbackATRs, lot_size \in LotSizes :
          LET stops == AdaptiveStops(entry_price, atr_value, direction)
              max_lots == MaxLots(current_balance, entry_price, lot_size)
          IN live' = [live EXCEPT !.task[h] =
                 IF /\ CanOpenPosition(Len(positions), current_balance,
                                       current_balance, initial_capital)
                    /\ ~RiskRewardTooLow(stops.take_distance, stops.stop_distance)
                    /\ ~(max_lots < 1)
                 THEN [pc |-> "ordering", direction |-> direction,
                       quantity |-> max_lots * lot_size,
                       entry_price |-> entry_price,
                       stop_loss |-> stops.stop_loss,
                       take_profit |-> stops.take_profit]
                 ELSE [pc |-> "done", outcome |-> "rejected"]]
    /\ UNCHANGED <<mode, ledger, paper_vars, bt_vars, error, pnl_call,
                   call, twin, n_candles, handler, failed_fetches, error_handler>>

\* post_order returns to the handler: the position is created and appended.
LiveOrderPlaced(h) ==
    /\ mode = "live" /\ live.task[h].pc = "ordering"
    /\ trade_counter' = trade_counter + 1
    /\ positions' = Append(positions,
           NewPosition(trade_counter + 1, live.task[h].direction,
                       live.task[h].quantity, live.task[h].entry_price,
                       live.task[h].stop_loss, live.task[h].take_profit,
                       "pullback", now))
    /\ live' = [live EXCEPT !.task[h] = [pc |-> "done", outcome |-> "opened"]]
    /\ UNCHANGED <<mode, initial_capital, current_balance, available_balance,
                   closed_positions, paper_vars, bt_vars, error, pnl_call,
                   call, twin, n_candles, handler, failed_fetches, error_handler>>

\* post_order raises: "except Exception" logs it and returns None.
LiveOrderFailed(h) ==
    /\ mode = "live" /\ live.task[h].pc = "ordering"
    /\ live' = [live EXCEPT !.task[h] = [pc |-> "done", outcome |-> "failed"]]
    /\ UNCHANGED <<mode, ledger, paper_vars, bt_vars, error, pnl_call,
                   call, twin, n_candles, handler, failed_fetches, error_handler>>

\* monitor_positions: "for position in self.positions[:]" takes the snapshot.
LiveMonitorSnapshot ==
    /\ mode = "live" /\ run_pc = "running"
    /\ mon_queue = <<>> /\ live.closing = <<>> /\ positions # <<>>
    /\ mon_queue' = Ids(positions)
    /\ UNCHANGED <<mode, ledger, now, run_pc, shut_queue, bt_vars, error, pnl_call,
                   ext>>

\* One turn of the loop: the last price is fetched and tested.  A position
\* that breaches a level goes to close_position, which awaits post_order.
LiveMonitorPosition ==
    /\ mode = "live" /\ run_pc = "running"
    /\ mon_queue # <<>> /\ live.closing = <<>>
    /\ mon_queue' = Tail(mon_queue)
    /\ \E current_price \in Prices \cup {NoPrice} :
          IF current_price = NoPrice
          THEN UNCHANGED <<positions, live>>
          ELSE LET p == CalculatePnl(PositionById(positions, Head(mon_queue)),
                                     current_price)
                   d == CloseDecision(p, current_price)
               IN /\ positions' = ReplaceById(positions, p)
                  /\ live' = IF d.should_close
                             THEN [live EXCEPT !.closing =
                                      <<[id |-> p.id, price |-> d.price,
                                         close_reason |-> d.close_reason]>>]
                             ELSE live
    /\ UNCHANGED <<mode, initial_capital, current_balance, available_balance,
                   closed_positions, trade_counter, now, run_pc, shut_queue,
                   bt_vars, error, pnl_call, call, twin, n_candles, handler,
                   failed_fetches, error_handler>>

\* A close_position that writes the close fields before it awaits the order.
LiveCloseResultMarkedFirst(L, c, raised) ==
    LET p == PositionById(L.positions, c.id)
        q == MarkClosed(p, c.price, c.close_reason)
    IN IF raised
       THEN [L EXCEPT !.positions = ReplaceById(L.positions, q)]
       ELSE [L EXCEPT !.positions = RemoveId(L.positions, c.id),
                      !.closed_positions = Append(L.closed_positions, q)]

\* The body of close_position from its "await post_order" on: the close
\* fields are written and the position is moved only once the order has
\* returned; "except Exception" logs an order that raised.
LiveCloseResult(L, c, raised) ==
    LET p == PositionById(L.positions, c.id)
    IN IF raised
       THEN L
       ELSE [L EXCEPT !.positions = RemoveId(L.positions, c.id),
                      !.closed_positions =
                          Append(L.closed_positions,
                                 MarkClosed(p, c.price, c.close_reason))]

\* post_order returns to close_position: the position moves to the history
\* and _update_balance reads the balance from the broker.
LiveClosePlaced ==
    /\ mode = "live" /\ live.closing # <<>>
    /\ LET L == LiveCloseResult(Ledger, live.closing[1], FALSE)
       IN /\ positions' = L.positions
          /\ closed_positions' = L.closed_positions
    /\ \E balance \in LiveBalances : current_balance' = balance
    /\ call' = [fn |-> "post_order", id |-> live.closing[1].id, raised |-> FALSE]
    /\ live' = [live EXCEPT !.closing = <<>>,
                            !.close_orders = Append(@, live.closing[1].id)]
    /\ UNCHANGED <<mode, initial_capital, available_balance, trade_counter,
                   paper_vars, bt_vars, error, pnl_call,
                   twin, n_candles, handler, failed_fetches, error_handler>>

\* post_order raises in close_position: the error is logged and the
\* position stays open.
LiveCloseFailed ==
    /\ mode = "live" /\ live.closing # <<>>
    /\ LET L == LiveCloseResult(Ledger, live.closing[1], TRUE)
       IN /\ positions' = L.positions
          /\ closed_positions' = L.closed_positions
    /\ call' = [fn |-> "post_order", id |-> live.closing[1].id, raised |-> TRUE]
    /\ live' = [live EXCEPT !.closing = <<>>]
    /\ UNCHANGED <<mode, initial_capital, current_balance, available_balance,
                   trade_counter, paper_vars, bt_vars, error, pnl_call,
                   twin, n_candles, handler, failed_fetches, error_handler>>

\* run_live_trading, the finally block: monitoring_task.cancel() and the
\* snapshot of the shutdown loop.  A cancellation that arrives while
\* close_position awaits post_order leaves close_position as
\* CancelledError, which "except Exception" does not catch: the position
\* stays open, and the order in flight has reached the broker or has not.
LiveCancelMonitor ==
    /\ mode = "live" /\ run_pc = "running"
    /\ mon_queue' = <<>>
    /\ shut_queue' = Ids(positions)
    /\ run_pc' = IF positions = <<>> THEN "stopped" ELSE "closing"
    /\ IF live.closing = <<>>
       THEN UNCHANGED live
       ELSE \E reached \in BOOLEAN :
               live' = [live EXCEPT !.closing = <<>>,
                                    !.close_orders =
                                        IF reached THEN Append(@, live.closing[1].id)
                                                   ELSE @]
    /\ UNCHANGED <<mode, ledger, now, bt_vars, error, pnl_call,
                   call, twin, n_candles, handler, failed_fetches, error_handler>>

\* One iteration of the shutdown loop: the price is fetched and, if there is
\* one, close_position places the closing order.
LiveShutdownPosition ==
    /\ mode = "live" /\ run_pc = "closing" /\ shut_queue # <<>>
    /\ shut_queue' = Tail(shut_queue)
    /\ run_pc' = IF Tail(shut_queue) = <<>> THEN "stopped" ELSE "closing"
    /\ \E current_price \in ShutdownPrices \cup {NoPrice}, raised \in BOOLEAN :
          IF current_price = NoPrice
          THEN /\ ~raised
               /\ UNCHANGED <<positions, closed_positions, current_balance, live, call>>
          ELSE LET c == [id |-> Head(shut_queue), price |-> current_price,
                         close_reason |-> "bot_shutdown"]
                   L == LiveCloseResult(Ledger, c, raised)
               IN /\ positions' = L.positions
                  /\ closed_positions' = L.closed_positions
                  /\ call' = [fn |-> "post_order", id |-> c.id, raised |-> raised]
                  /\ IF raised
                     THEN UNCHANGED <<current_balance, live>>
                     ELSE /\ \E balance \in LiveBalances : current_balance' = balance
                          /\ live' = [live EXCEPT !.close_orders = Append(@, c.id)]
    /\ UNCHANGED <<mode, initial_capital, available_balance, trade_counter, now,
                   mon_queue, bt_vars, error, pnl_call,
                   twin, n_candles, handler, failed_fetches, error_handler>>

LiveNext ==
    \/ \E h \in LiveHandlers : LiveOpenPullbackPosition(h)
    \/ \E h \in LiveHandlers : LiveOrderPlaced(h)
    \/ \E h \in LiveHandlers : LiveOrderFailed(h)
    \/ LiveMonitorSnapshot
    \/ LiveMonitorPosition
    \/ LiveClosePlaced
    \/ LiveCloseFailed

-----------------------------------------------------------------------------
(* The specifications.                                                     *)

NoCandle == [timestamp |-> 0, close |-> 0, signal |-> "none"]

InitLedger ==
    /\ initial_capital = Rub(BACKTEST_INITIAL_CAPITAL)
    /\ current_balance = initial_capital
    /\ available_balance = initial_capital
    /\ closed_positions = <<>>
    /\ error = "none"
    /\ pnl_call = <<>>

\* No message has been handled yet.
Idle == [pc |-> "idle", signal |-> 0]

\* The parts of the state a specification does not use.
InitAux ==
    /\ call = <<>>
    /\ twin = <<>>
    /\ n_candles = ATR_PERIOD + 1
    /\ handler = Idle
    /\ failed_fetches = 0
    /\ live = NoLive /\ error_handler = NoErrorHandler

InitPaper ==
    /\ mode = "paper"
    /\ InitLedger
    /\ InitAux
    /\ positions = <<>> /\ trade_counter = 0
    /\ now = 1440 + 12 * 60
    /\ mon_queue = <<>> /\ shut_queue = <<>> /\ run_pc = "running"
    /\ atr = 0 /\ idx = 0 /\ row = NoCandle /\ bt_pc = "candle"

InitBacktest ==
    /\ mode = "backtest"
    /\ InitLedger
    /\ InitAux
    /\ positions = <<>> /\ trade_counter = 0
    /\ now = 0
    /\ mon_queue = <<>> /\ shut_queue = <<>> /\ run_pc = "stopped"
    /\ atr \in ATRs /\ idx = 0 /\ row = NoCandle /\ bt_pc = "candle"

\* The lengths of the candle series handed to run_manual_backtest.
SeriesLengths == {3, ATR_PERIOD + 1}

\* run_manual_backtest is entered with a series of n_candles candles.
InitSeries ==
    /\ mode = "backtest"
    /\ InitLedger
    /\ call = <<>> /\ twin = <<>> /\ handler = Idle /\ failed_fetches = 0
    /\ live = NoLive /\ error_handler = NoErrorHandler
    /\ n_candles \in SeriesLengths
    /\ positions = <<>> /\ trade_counter = 0
    /\ now = 0
    /\ mon_queue = <<>> /\ shut_queue = <<>> /\ run_pc = "stopped"
    /\ atr = 0 /\ idx = 0 /\ row = NoCandle /\ bt_pc = "start"

\* One freshly constructed position, with the stops of calculate_adaptive_stops.
InitPnl ==
    /\ mode = "pnl"
    /\ InitLedger
    /\ InitAux
    /\ \E direction \in {"UP", "DOWN"}, quantity \in 1..MaxQty,
          entry_price \in Prices, atr_value \in ATRs :
          LET stops == AdaptiveStops(entry_price, atr_value, direction)
          IN positions = <<NewPosition(1, direction, quantity, entry_price,
                                       stops.stop_loss, stops.take_profit,
                                       "pullback", 0)>>
    /\ trade_counter = 1
    /\ now = 0
    /\ mon_queue = <<>> /\ shut_queue = <<>> /\ run_pc = "stopped"
    /\ atr = 0 /\ idx = 0 /\ row = NoCandle /\ bt_pc = "candle"

\* A TechnicalAnalyzer on its own: no engine, nothing called yet.
InitAnalyzer ==
    /\ mode = "analyzer"
    /\ InitLedger
    /\ InitAux
    /\ positions = <<>> /\ trade_counter = 0
    /\ now = 0
    /\ mon_queue = <<>> /\ shut_queue = <<>> /\ run_pc = "stopped"
    /\ atr = 0 /\ idx = 0 /\ row = NoCandle /\ bt_pc = "candle"

\* Two fresh backtesters with the same initial capital and the same ATR.
InitTwin ==
    /\ mode = "twin"
    /\ InitLedger
    /\ call = <<>> /\ n_candles = ATR_PERIOD + 1 /\ handler = Idle
    /\ failed_fetches = 0 /\ live = NoLive /\ error_handler = NoErrorHandler
    /\ twin = <<FreshRun, FreshRun>>
    /\ positions = <<>> /\ trade_counter = 0
    /\ now = 0
    /\ mon_queue = <<>> /\ shut_queue = <<>> /\ run_pc = "stopped"
    /\ atr \in ATRs /\ idx = 0 /\ row = NoCandle /\ bt_pc = "candle"

\* Config.FORCE_CLOSE_TIME, in minutes of the day.
FORCE_CLOSE_TIME == 23 * 60
NO_NEW_POSITIONS_BEFORE_CLOSE_MINUTES == 60

\* A paper session that is running at 22:30.
InitEvening ==
    /\ mode = "paper"
    /\ InitLedger
    /\ InitAux
    /\ positions = <<>> /\ trade_counter = 0
    /\ now = 1440 + 22 * 60 + 30
    /\ mon_queue = <<>> /\ shut_queue = <<>> /\ run_pc = "running"
    /\ atr = 0 /\ idx = 0 /\ row = NoCandle /\ bt_pc = "candle"

Init == InitPaper \/ InitBacktest

Next == PaperNext \/ BacktestNext

\* The paper session or the manual backtest.
Spec == Init /\ [][Next]_vars

\* The manual backtest alone.
SpecBacktest == InitBacktest /\ [][BacktestNext]_vars

\* The manual backtest from its entry, the ATR of the series included.
SeriesNext == BTStart \/ BacktestNext

SpecSeries == InitSeries /\ [][SeriesNext]_vars

\* calculate_pnl on one position.
SpecPnl == InitPnl /\ [][CalculatePnlCall]_vars

\* The functions of TechnicalAnalyzer called directly.
SpecAnalyzer == InitAnalyzer /\ [][AnalyzerNext]_vars

\* A paper session whose messages are handled wait by wait.
SpecSignals == InitPaper /\ [][SignalsNext]_vars

\* The event loop resumes a handler whose sleep or price fetch has finished.
FairSignals == SpecSignals /\ WF_vars(WaitPoll) /\ WF_vars(WaitTimeout)

\* A paper session with a failing price source.  The event loop keeps
\* running the monitoring task.
ConnNext ==
    \/ HandlePullbackSignal
    \/ MonitorSnapshot
    \/ MonitorPositionAndCount

SpecConn == InitPaper /\ [][ConnNext]_vars
                /\ WF_vars(MonitorSnapshot) /\ WF_vars(MonitorPositionAndCount)

\* Two runs of the manual backtest on one series.
SpecTwin == InitTwin /\ [][TwinNext]_vars

\* The messages of a paper session late in the evening.
SpecEvening == InitEvening /\ [][SignalsNext]_vars

\* The SL/TP passes of the paper monitor and of the manual backtest.
TicksNext == ConnNext \/ BacktestNext

SpecTicks == Init /\ [][TicksNext]_vars

\* A paper session in which close_position is called once more on a closed position.
RecloseNext ==
    \/ HandlePullbackSignal
    \/ MonitorSnapshot
    \/ MonitorPosition
    \/ CloseAgain

SpecReclose == InitPaper /\ [][RecloseNext]_vars

\* A paper session that runs over several days.
ClockNext ==
    \/ HandlePullbackSignal
    \/ MonitorSnapshot
    \/ MonitorPosition
    \/ AdvanceClock

SpecClock == InitPaper /\ [][ClockNext]_vars
\* The live engine with its handlers and its monitoring loop.
InitLive ==
    /\ mode = "live"
    /\ InitLedger
    /\ InitAux
    /\ positions = <<>> /\ trade_counter = 0
    /\ now = 1440 + 12 * 60
    /\ mon_queue = <<>> /\ shut_queue = <<>> /\ run_pc = "running"
    /\ atr = 0 /\ idx = 0 /\ row = NoCandle /\ bt_pc = "candle"

SpecLive == InitLive /\ [][LiveNext]_vars

\* The live engine up to and through the shutdown of the bot.
LiveStopNext == LiveNext \/ LiveCancelMonitor \/ LiveShutdownPosition

SpecLiveStop == InitLive /\ [][LiveStopNext]_vars

\* A BacktestEngine with an empty history and its capital.
InitStats ==
    /\ mode = "stats"
    /\ initial_capital = StatsCapital
    /\ current_balance = StatsCapital /\ available_balance = StatsCapital
    /\ closed_positions = <<>>
    /\ error = "none" /\ pnl_call = <<>>
    /\ InitAux
    /\ positions = <<>> /\ trade_counter = 0
    /\ now = 1
    /\ mon_queue = <<>> /\ shut_queue = <<>> /\ run_pc = "stopped"
    /\ atr = 0 /\ idx = 0 /\ row = NoCandle /\ bt_pc = "candle"

SpecStats == InitStats /\ [][StatsNext]_vars

\* A monitor that is fed updates while safe calls are made.
InitErrorHandler ==
    /\ mode = "error_handler"
    /\ InitLedger
    /\ call = <<>> /\ twin = <<>> /\ n_candles = ATR_PERIOD + 1
    /\ handler = Idle /\ failed_fetches = 0 /\ live = NoLive
    /\ error_handler \in {[NoErrorHandler EXCEPT !.on_connection_loss = c] :
                             c \in BOOLEAN}
    /\ positions = <<>> /\ trade_counter = 0
    /\ now = 1
    /\ mon_queue = <<>> /\ shut_queue = <<>> /\ run_pc = "stopped"
    /\ atr = 0 /\ idx = 0 /\ row = NoCandle /\ bt_pc = "candle"

SpecErrorHandler == InitErrorHandler /\ [][ErrorHandlerNext]_vars

\* wait_for ends every invocation after API_TIMEOUT at the latest and a
\* sleep of RETRY_DELAY ends: the event loop resumes safe_call.
FairErrorHandler ==
    SpecErrorHandler /\ WF_vars(SafeCallAttempt) /\ WF_vars(SafeCallWake)
-----------------------------------------------------------------------------
(* Properties.                                                             *)

RECURSIVE SumPnl(_)
SumPnl(s) == IF s = <<>> THEN 0 ELSE Head(s).profit_loss + SumPnl(Tail(s))

RECURSIVE SumCost(_)
SumCost(s) == IF s = <<>> THEN 0
              ELSE Head(s).quantity * Head(s).entry_price + SumCost(Tail(s))

EverCreated == {positions[i] : i \in 1..Len(positions)} \cup
               {closed_positions[i] : i \in 1..Len(closed_positions)}

ClosedFor(reason) == {i \in 1..Len(closed_positions) :
                         closed_positions[i].close_reason = reason}

\* C1: in the paper and manual-backtest ledgers available_balance equals
\* initial_capital plus the profit_loss of all closed positions minus
\* quantity x entry_price of the open positions.
LedgerReconciles ==
    mode \in {"paper", "backtest"} =>
        available_balance =
            initial_capital + SumPnl(closed_positions) - SumCost(positions)

\* C2: available_balance is never negative in the paper and manual-backtest
\* ledgers.
AvailableNeverNegative ==
    mode \in {"paper", "backtest"} => available_balance >= 0

AvailableAfterClosesAndOpens ==
    /\ mode = "backtest"
    /\ ClosedFor("end_of_session") # {}
    /\ positions # <<>>
    /\ available_balance < initial_capital - SumCost(positions)

\* C4: the number of open positions never exceeds MAX_OPEN_POSITIONS in the
\* paper and manual-backtest ledgers.
OpenCountWithinLimit ==
    mode \in {"paper", "backtest"} => Len(positions) <= MAX_OPEN_POSITIONS

FullBookWhileMonitoring ==
    /\ mode = "paper"
    /\ Len(positions) = MAX_OPEN_POSITIONS
    /\ trade_counter = MAX_OPEN_POSITIONS + 1
    /\ mon_queue # <<>>

\* C6: every position created has stop_loss < entry_price < take_profit when
\* its direction is UP and take_profit < entry_price < stop_loss when DOWN.
StopsOnTheRightSides ==
    \A p \in EverCreated :
        IF p.direction = "UP"
        THEN p.stop_loss < p.entry_price /\ p.entry_price < p.take_profit
        ELSE p.take_profit < p.entry_price /\ p.entry_price < p.stop_loss

PullbackAndRangeEntries ==
    /\ \E p \in EverCreated : p.strategy = "pullback" /\ p.direction = "DOWN"
    /\ \E p \in EverCreated : p.strategy = "range_trading" /\ p.direction = "DOWN"
    /\ \E p \in EverCreated : p.strategy = "range_trading" /\ p.direction = "UP"

\* C3: a close_position call that raises leaves available_balance,
\* current_balance and the closed history, close fields included, as they
\* were: a position is credited and recorded once.
SecondCloseChangesNothing ==
    [][error' # error =>
          /\ available_balance' = available_balance
          /\ current_balance' = current_balance
          /\ closed_positions' = closed_positions]_vars

\* C5: no engine opens a position in a state where can_open_position is
\* false: the open count at MAX_OPEN_POSITIONS, available_balance below
\* MIN_BALANCE or the drawdown above MAX_DRAWDOWN_PERCENT.
EveryOpenIsGated ==
    [][Len(positions') > Len(positions) =>
          CanOpenPosition(Len(positions), available_balance, current_balance,
                          initial_capital)]_vars

\* C7: calculate_pnl(p) is (p - entry_price) x quantity for UP and
\* (entry_price - p) x quantity for DOWN, hence positive iff p > entry_price
\* for UP and iff p < entry_price for DOWN.
PnlSignAndValue ==
    (mode = "pnl" /\ pnl_call # <<>>) =>
        LET p == positions[1]
            price == pnl_call[1]
            result == pnl_call[2]
        IN /\ p.quantity >= 1
           /\ IF p.direction = "UP"
              THEN /\ result = (price - p.entry_price) * p.quantity
                   /\ (result > 0) <=> (price > p.entry_price)
              ELSE /\ result = (p.entry_price - price) * p.quantity
                   /\ (result > 0) <=> (price < p.entry_price)

ShortInProfit ==
    /\ mode = "pnl" /\ pnl_call # <<>>
    /\ positions[1].direction = "DOWN"
    /\ positions[1].quantity > 1
    /\ pnl_call[1] < positions[1].entry_price
    /\ pnl_call[2] > 0

InForcedCloseWindow(t) == IsTradingHours(t) /\ ShouldClosePositions(t)

ClosedAs(p, history, reason, price) ==
    \E j \in 1..Len(history) :
        /\ history[j].id = p.id
        /\ history[j].is_closed
        /\ history[j].close_reason = reason
        /\ history[j].close_price = price

\* C8: when the backtest driver processes a candle in the forced-close
\* window, every position open at that candle is closed as end_of_session
\* at the candle's close, and no position is open once the candle is done.
ForcedCloseEmptiesTheBook ==
    [][(mode = "backtest" /\ InForcedCloseWindow(row'.timestamp)) =>
          /\ idx' = idx + 1 =>
                 /\ positions' = <<>>
                 /\ \A i \in 1..Len(positions) :
                        ClosedAs(positions[i], closed_positions',
                                 "end_of_session", row'.close)
          /\ bt_pc' = "candle" => positions' = <<>>]_vars

CurrentTime == IF mode = "backtest" THEN row.timestamp ELSE now

SessionEndOf(t) == DayOf(t) * 1440 + session_end

\* C9: no position is open after the end of the session it was opened in.
NothingHeldOvernight ==
    mode \in {"paper", "backtest"} =>
        \A i \in 1..Len(positions) :
            CurrentTime <= SessionEndOf(positions[i].entry_time)

\* C10: when the backtest run ends, every position still open is closed as
\* backtest_end at the final close, the open set is empty and every position
\* ever opened is in the closed history exactly once.
BacktestEndClosesAll ==
    [][(mode = "backtest" /\ bt_pc # "done" /\ bt_pc' = "done") =>
          /\ positions' = <<>>
          /\ \A i \in 1..Len(positions) :
                 ClosedAs(positions[i], closed_positions', "backtest_end", row.close)
          /\ \A id \in 1..trade_counter :
                 Cardinality({j \in 1..Len(closed_positions') :
                                 closed_positions'[j].id = id}) = 1]_vars

FinishedWithLateCloses ==
    /\ mode = "backtest" /\ bt_pc = "done"
    /\ Cardinality(ClosedFor("backtest_end")) >= 2
    /\ row.close # Rub(100)


\* C12: every position an engine has opened has a reward |take_profit - entry|
\* of at least MIN_RISK_REWARD_RATIO times its risk |entry - stop_loss|.
EveryPositionMeetsRiskReward ==
    \A p \in EverCreated :
        ~RiskRewardTooLow(Abs(p.take_profit - p.entry_price),
                          Abs(p.entry_price - p.stop_loss))

\* C19: once run_live_trading has gone through its shutdown loop no position
\* is open.
ShutdownLeavesNothingOpen ==
    (mode = "paper" /\ run_pc = "stopped") => positions = <<>>


\* C13: for every positive entry_price, every ATR and both directions
\* calculate_adaptive_stops returns a stop_percent within
\* [MIN_STOP_LOSS_PERCENT, MAX_STOP_LOSS_PERCENT], a stop_loss exactly
\* entry_price x stop_percent / 100 away from the entry, a take_profit
\* ATR x ATR_TAKE_MULTIPLIER away from it (never clamped), and a
\* risk_reward_ratio of that take distance over the clamped stop distance.
AdaptiveStopsWithinBounds ==
    (mode = "analyzer" /\ call # <<>> /\ call.fn = "calculate_adaptive_stops") =>
        LET r == call.result
            risk == Abs(call.entry_price - r.stop_loss)
            reward == Abs(r.take_profit - call.entry_price)
        IN /\ MIN_STOP_LOSS_PERCENT * call.entry_price <= r.stop_percent_x_entry
           /\ r.stop_percent_x_entry <= MAX_STOP_LOSS_PERCENT * call.entry_price
           /\ risk * 100 = r.stop_percent_x_entry
           /\ reward = call.atr * ATR_TAKE_MULTIPLIER
           /\ risk > 0
           /\ r.risk_reward_x100 = (reward * 100) \div risk

\* A stop that was clamped up to the minimum, with a reward below the risk.
StopClampedUpToMinimum ==
    /\ mode = "analyzer" /\ call # <<>> /\ call.fn = "calculate_adaptive_stops"
    /\ call.atr * ATR_STOP_MULTIPLIER * 100 < MIN_STOP_LOSS_PERCENT * call.entry_price
    /\ call.result.stop_percent_x_entry = MIN_STOP_LOSS_PERCENT * call.entry_price
    /\ call.atr > 0
    /\ call.result.risk_reward_x100 < 100


\* The levels calculate_fibonacci_levels returns, from the 0% anchor to the
\* 100% anchor.
LevelAt(levels, i) == levels[FibKeys[i]]

Between(x, a, b) == (a <= x /\ x <= b) \/ (b <= x /\ x <= a)

\* |current_price - level_price| <= tolerance x level_price.
WithinTolerance(current_price, level_price) ==
    Abs(current_price * 1000 - level_price)
        <= (level_price * FIBONACCI_TOLERANCE_X10) \div 1000

\* C14: detect_pullback returns the first level of FIBONACCI_ENTRY_LEVELS, in
\* the configured order, whose price is within the tolerance of the current
\* price, even when a later level is nearer; it returns no match exactly
\* when no configured level is within the tolerance.
FirstLevelInConfigOrderWins ==
    (mode = "analyzer" /\ call # <<>> /\ call.fn = "detect_pullback") =>
        LET within(i) == WithinTolerance(call.current_price,
                             call.fibonacci_levels[FIBONACCI_ENTRY_LEVELS[i]])
            n == Len(FIBONACCI_ENTRY_LEVELS)
        IN /\ call.result.detected <=> \E i \in 1..n : within(i)
           /\ call.result.detected =>
                 \E i \in 1..n :
                    /\ call.result.level = FIBONACCI_ENTRY_LEVELS[i]
                    /\ call.result.level_price
                          = call.fibonacci_levels[FIBONACCI_ENTRY_LEVELS[i]]
                    /\ within(i)
                    /\ \A j \in 1..(i - 1) : ~within(j)

\* The 38.2% level is returned although the 50% level is nearer to the price.
LaterLevelIsNearer ==
    /\ mode = "analyzer" /\ call # <<>> /\ call.fn = "detect_pullback"
    /\ call.result.detected
    /\ call.result.level = 382
    /\ WithinTolerance(call.current_price, call.fibonacci_levels[500])
    /\ Abs(call.current_price * 1000 - call.fibonacci_levels[500])
          < Abs(call.current_price * 1000 - call.fibonacci_levels[382])

\* The levels are monotonic from the 0% anchor to the 100% anchor, and all
\* equal when the two prices are equal.
LevelsMonotonic(c) ==
    /\ c.result[0] = c.trend_end_price * 1000
    /\ c.result[1000] = c.trend_start_price * 1000
    /\ \A i \in 2..(Len(FibKeys) - 1) :
          Between(LevelAt(c.result, i), LevelAt(c.result, i - 1),
                  LevelAt(c.result, i + 1))
    /\ c.trend_start_price = c.trend_end_price =>
          \A i \in 1..Len(FibKeys) : LevelAt(c.result, i) = c.trend_end_price * 1000

\* The trend ran the way is_uptrend says, as wait_for_pullback has checked
\* with MIN_TREND_MOVEMENT before it calls calculate_fibonacci_levels.
TrendAsFlagged(c) ==
    IF c.is_uptrend THEN c.trend_start_price <= c.trend_end_price
                    ELSE c.trend_start_price >= c.trend_end_price

\* C15 as stated: for all trend_start_price, trend_end_price and is_uptrend
\* the levels of calculate_fibonacci_levels are monotonic from the 0% anchor
\* to the 100% anchor.
FibonacciLevelsMonotonicAlways ==
    (mode = "analyzer" /\ call # <<>> /\ call.fn = "calculate_fibonacci_levels") =>
        LevelsMonotonic(call)

\* C15: when the trend ran the way is_uptrend says (start <= end for an
\* uptrend, start >= end for a downtrend) the levels of
\* calculate_fibonacci_levels are monotonic from the 0% anchor to the 100%
\* anchor, each inner level lies between its neighbours, and all levels are
\* equal when the two prices are equal.
FibonacciLevelsMonotonic ==
    (/\ mode = "analyzer" /\ call # <<>> /\ call.fn = "calculate_fibonacci_levels"
     /\ TrendAsFlagged(call)) =>
        LevelsMonotonic(call)

\* A downtrend of one rouble, its levels rising from the low to the high.
DowntrendLevelsRise ==
    /\ mode = "analyzer" /\ call # <<>> /\ call.fn = "calculate_fibonacci_levels"
    /\ ~call.is_uptrend
    /\ call.trend_start_price > call.trend_end_price
    /\ call.result[236] > call.result[0]
    /\ call.result[786] < call.result[1000]


\* C16: a backtest over a series of three in-session candles with a POSITIVE
\* signal ends with exactly one position opened, UP, and closed exactly once,
\* at its take-profit or at the end of the backtest.
ThreeCandleRunTradesOnce ==
    (mode = "backtest" /\ n_candles = 3 /\ bt_pc \in {"done", "failed"}) =>
        /\ trade_counter = 1
        /\ positions = <<>>
        /\ Len(closed_positions) = 1
        /\ closed_positions[1].direction = "UP"
        /\ closed_positions[1].close_reason \in {"take_profit", "backtest_end"}


\* The handler of a NEUTRAL signal polls a price in one of the entry zones.
RangeEntryPolled ==
    /\ handler.pc = "waiting" /\ handler.kind = "range"
    /\ handler'.pc = "done" /\ handler'.polled # NoPrice

\* The position of the range scenario has been appended: UP for a price in
\* the buy zone, DOWN in the sell zone, with the stop RANGE_STOP_PERCENT of
\* the width behind the entry and the target RANGE_ENTRY_OFFSET of the width
\* inside the far bound.
RangePositionOpened ==
    LET p == handler'.polled
        low == handler.range.low
        high == handler.range.high
        width == high - low
        q == positions'[Len(positions')]
    IN /\ Len(positions') = Len(positions) + 1
       /\ SubSeq(positions', 1, Len(positions)) = positions
       /\ handler'.outcome = "opened"
       /\ q.strategy = "range_trading"
       /\ q.entry_price = p
       /\ IF p * 10 <= low * 10 + RANGE_ENTRY_OFFSET_X10 * width
          THEN /\ q.direction = "UP"
               /\ q.stop_loss * 10 = p * 10 - RANGE_STOP_PERCENT_X10 * width
               /\ q.take_profit * 10 = high * 10 - RANGE_ENTRY_OFFSET_X10 * width
          ELSE /\ p * 10 >= high * 10 - RANGE_ENTRY_OFFSET_X10 * width
               /\ q.direction = "DOWN"
               /\ q.stop_loss * 10 = p * 10 + RANGE_STOP_PERCENT_X10 * width
               /\ q.take_profit * 10 = low * 10 + RANGE_ENTRY_OFFSET_X10 * width

\* C17 as stated: for a NEUTRAL signal with a valid daily range and a ledger
\* for which can_open_position holds, the first polled price in an entry
\* zone opens exactly one range_trading position with the stops of the range.
RangeEntryOpensWheneverGateOpen ==
    [][(/\ RangeEntryPolled
        /\ CanOpenPosition(Len(positions), available_balance, current_balance,
                           initial_capital))
       => RangePositionOpened]_vars

\* C17: for a NEUTRAL signal with a valid daily range, a ledger for which
\* can_open_position holds and MAX_POSITION_SIZE_PERCENT of whose available
\* balance buys at least one lot at the polled price, the first polled price
\* in the buy zone opens exactly one UP position with strategy range_trading,
\* stop_loss = p - RANGE_STOP_PERCENT x width and take_profit = high -
\* RANGE_ENTRY_OFFSET x width (symmetrically DOWN in the sell zone); the
\* risk/reward validation does not reject it.
RangeEntryOpensOnePosition ==
    [][(/\ RangeEntryPolled
        /\ CanOpenPosition(Len(positions), available_balance, current_balance,
                           initial_capital)
        /\ MaxLots(available_balance, handler'.polled, handler.lot_size) >= 1)
       => RangePositionOpened]_vars

\* Range positions of both directions are open, the long one entered on a
\* later poll of its wait.
RangeLongAndShortOpen ==
    /\ handler.pc = "done" /\ handler.kind = "range" /\ handler.outcome = "opened"
    /\ handler.elapsed > UPDATE_INTERVAL + 1
    /\ handler.polled = 10050
    /\ \E i, j \in 1..Len(positions) :
          /\ positions[i].strategy = "range_trading" /\ positions[i].direction = "DOWN"
          /\ positions[j].strategy = "range_trading" /\ positions[j].direction = "UP"
          /\ positions[j].id = trade_counter


\* C20: a confirmation wait always ends, with a match or, once the timeout
\* has elapsed, with no result, even if every price fetch fails; a wait that
\* times out or is cancelled creates no position and leaves the balances and
\* the position sets as they were, and the handler never goes back to a
\* signal it has finished with.
WaitsAreBoundedAndClean ==
    /\ \A s \in 1..MaxSignals :
          (handler.pc = "waiting" /\ handler.signal = s)
              ~> (handler.pc = "done" /\ handler.signal = s)
    /\ [](handler.pc = "done" /\ handler.outcome = "no_result"
             => handler.elapsed = 0 \/ handler.elapsed >= MaxWait)
    /\ [][(/\ handler.pc = "waiting" /\ handler'.pc = "done"
           /\ handler'.outcome \in {"no_result", "cancelled"})
          => UNCHANGED ledger]_vars
    /\ [][(handler.pc = "done" /\ handler' # handler)
          => (handler'.pc = "waiting" /\ handler'.signal > handler.signal)
             \/ (handler'.pc = "done" /\ handler'.signal > handler.signal)]_vars

\* A wait in which every fetch failed has run into its timeout while
\* positions of earlier signals are open.
TimedOutWithoutAPrice ==
    /\ mode = "paper" /\ handler.pc = "done"
    /\ handler.outcome = "no_result" /\ handler.elapsed >= MaxWait
    /\ handler.signal >= 3
    /\ Len(positions) >= 2


\* C18: when MAX_RETRY_ATTEMPTS price fetches in a row have failed while
\* positions are open, every one of those positions is eventually closed.
ConnectionLossClosesAll ==
    (mode = "paper" /\ failed_fetches >= MAX_RETRY_ATTEMPTS /\ positions # <<>>)
        ~> (positions = <<>>)


\* What C11 compares of a run: the closed history in order, the balances and
\* the equity curve.
Outcome(run) ==
    [history |-> [i \in 1..Len(run.L.closed_positions) |->
                     LET p == run.L.closed_positions[i]
                     IN <<p.direction, p.quantity, p.entry_price, p.close_price,
                          p.close_reason, p.profit_loss>>],
     available_balance |-> run.L.available_balance,
     current_balance |-> run.L.current_balance,
     equity_curve |-> run.equity_curve]

NoOpenOutsideTradingWindow ==
    mode = "backtest" =>
        \A p \in EverCreated :
            /\ IsTradingHours(p.entry_time)
            /\ ~ShouldClosePositions(p.entry_time)

\* C30: no position was opened within NO_NEW_POSITIONS_BEFORE_CLOSE_MINUTES
\* minutes before the forced-close time.
NoOpenInTheLastHour ==
    \A p \in EverCreated :
        ~(/\ FORCE_CLOSE_TIME - NO_NEW_POSITIONS_BEFORE_CLOSE_MINUTES
                <= TimeOfDay(p.entry_time)
          /\ TimeOfDay(p.entry_time) < FORCE_CLOSE_TIME)


\* C22: a position that enters the closed history for stop_loss has its
\* stop_loss level as close_price and one closed for take_profit its
\* take_profit level; one closed at the end of the session or of the backtest
\* has the close of the candle, one closed at shutdown the price fetched.
ClosePriceByCause ==
    [][\A j \in (Len(closed_positions) + 1)..Len(closed_positions') :
          LET q == closed_positions'[j]
          IN /\ q.close_reason = "stop_loss" => q.close_price = q.stop_loss
             /\ q.close_reason = "take_profit" => q.close_price = q.take_profit
             /\ q.close_reason \in {"end_of_session", "backtest_end"}
                   => q.close_price = row'.close
             /\ q.close_reason = "bot_shutdown" => q.close_price \in ShutdownPrices
             /\ q.close_reason \in {"stop_loss", "take_profit", "end_of_session",
                                    "backtest_end", "bot_shutdown"}]_vars

\* One long position was stopped out at its level, another was closed at
\* shutdown at a price far beyond its target.
StoppedAtLevelThenShutDownAtTick ==
    /\ mode = "paper" /\ run_pc = "stopped"
    /\ \E i, j \in 1..Len(closed_positions) :
          /\ closed_positions[i].direction = "UP"
          /\ closed_positions[i].close_reason = "stop_loss"
          /\ closed_positions[i].close_price = closed_positions[i].stop_loss
          /\ closed_positions[j].direction = "UP"
          /\ closed_positions[j].close_reason = "bot_shutdown"
          /\ closed_positions[j].close_price > closed_positions[j].take_profit


StopBreached(p, price) ==
    IF p.direction = "UP" THEN price <= p.stop_loss ELSE price >= p.stop_loss

TakeBreached(p, price) ==
    IF p.direction = "UP" THEN price >= p.take_profit ELSE price <= p.take_profit

\* The open position p was evaluated against price in this step: it has left
\* the open set for the closed history iff a level was breached, and
\* otherwise it is still open with its entry, size and levels.
TickDecided(p, price) ==
    LET breached == StopBreached(p, price) \/ TakeBreached(p, price)
        still == {i \in 1..Len(positions') : positions'[i].id = p.id}
        gone == {j \in (Len(closed_positions) + 1)..Len(closed_positions') :
                    closed_positions'[j].id = p.id}
    IN /\ ~(StopBreached(p, price) /\ TakeBreached(p, price))
       /\ breached <=> (still = {} /\ Cardinality(gone) = 1)
       /\ ~breached =>
             /\ gone = {}
             /\ \E i \in still :
                   /\ positions'[i].entry_price = p.entry_price
                   /\ positions'[i].quantity = p.quantity
                   /\ positions'[i].stop_loss = p.stop_loss
                   /\ positions'[i].take_profit = p.take_profit
                   /\ ~positions'[i].is_closed

\* C23: on every tick evaluation an open position is closed iff the price is
\* at or beyond its stop-loss or its take-profit; the two are never breached
\* together; a position strictly inside its band stays open with entry_price,
\* quantity, stop_loss and take_profit as they were, and an evaluation that
\* closes nothing leaves both balances as they were.
TickClosesIffBreached ==
    [][/\ (mode = "paper" /\ mon_queue # <<>> /\ mon_queue' = Tail(mon_queue)
              /\ call'.price # NoPrice) =>
             LET p == PositionById(positions, Head(mon_queue))
             IN /\ call'.id = p.id
                /\ TickDecided(p, call'.price)
                /\ ~(StopBreached(p, call'.price) \/ TakeBreached(p, call'.price))
                      => UNCHANGED <<available_balance, current_balance>>
       /\ (mode = "backtest" /\ bt_pc = "monitor" /\ bt_pc' = "signal") =>
             /\ \A i \in 1..Len(positions) : TickDecided(positions[i], row.close)
             /\ (\A i \in 1..Len(positions) :
                    ~(StopBreached(positions[i], row.close)
                      \/ TakeBreached(positions[i], row.close)))
                   => UNCHANGED <<available_balance, current_balance>>]_vars

\* The monitor has left a short position open at a price inside its band,
\* after it had closed positions at the stop and at the target.
ShortHeldInsideItsBand ==
    /\ mode = "paper" /\ call # <<>> /\ call.price # NoPrice
    /\ \E i \in 1..Len(positions) :
          /\ positions[i].id = call.id
          /\ positions[i].direction = "DOWN"
          /\ positions[i].take_profit < call.price
          /\ call.price < positions[i].stop_loss
    /\ ClosedFor("stop_loss") # {} /\ ClosedFor("take_profit") # {}


\* The positions a step has appended to the closed history.
NewlyClosed == SubSeq(closed_positions', Len(closed_positions) + 1,
                      Len(closed_positions'))

\* The ids of s are in the order in which the positions were opened.
InOpeningOrder(s) == \A i, j \in 1..Len(s) : i < j => s[i].id < s[j].id

\* C24: the positions that breach a level, or are force-closed, on one tick
\* are appended to the closed history in the order in which they were
\* opened, none of them is stepped over, and the history before them is kept.
ClosedInOpeningOrder ==
    [][/\ (mode = "backtest" /\ (bt_pc' # bt_pc \/ idx' # idx)) =>
             /\ InOpeningOrder(positions)
             /\ InOpeningOrder(NewlyClosed)
             /\ SubSeq(closed_positions', 1, Len(closed_positions)) = closed_positions
             /\ bt_pc = "monitor" =>
                   {NewlyClosed[j].id : j \in 1..Len(NewlyClosed)}
                     = {positions[i].id : i \in {k \in 1..Len(positions) :
                            StopBreached(positions[k], row.close)
                            \/ TakeBreached(positions[k], row.close)}}
             /\ (Len(closed_positions') > Len(closed_positions) /\ bt_pc # "monitor") =>
                   /\ positions' = <<>>
                   /\ Len(NewlyClosed) = Len(positions)
       /\ (mode = "paper" /\ mon_queue = <<>> /\ mon_queue' # <<>>) =>
             /\ mon_queue' = Ids(positions)
             /\ InOpeningOrder(positions)
       /\ (mode = "paper" /\ mon_queue # <<>> /\ mon_queue' # mon_queue) =>
             /\ mon_queue' = Tail(mon_queue)
             /\ call'.id = Head(mon_queue)
             /\ \A k \in 1..Len(mon_queue) :
                   \E i \in 1..Len(positions) : positions[i].id = mon_queue[k]
             /\ SubSeq(closed_positions', 1, Len(closed_positions)) = closed_positions
             /\ Len(NewlyClosed) <= 1
             /\ \A j \in 1..Len(NewlyClosed) : NewlyClosed[j].id = Head(mon_queue)]_vars

\* The first two positions of the backtest, both entered at 100.00, were
\* closed by the SL/TP pass of the third candle.
TwoClosedOnOneCandle ==
    /\ mode = "backtest" /\ bt_pc = "signal" /\ idx = 3
    /\ row.close # Rub(100)
    /\ Len(closed_positions) = 2 /\ positions = <<>>
    /\ closed_positions[1].id = 1 /\ closed_positions[2].id = 2
    /\ closed_positions[1].entry_price = Rub(100)
    /\ closed_positions[2].entry_price = Rub(100)
    /\ closed_positions[1].close_reason \in {"stop_loss", "take_profit"}
    /\ closed_positions[2].close_reason \in {"stop_loss", "take_profit"}


\* The position a step has appended to the open list.
Opened == positions'[Len(positions')]

\* A step that opens a position: the open list grows by one.
OpensOne == Len(positions') = Len(positions) + 1

\* The unit of the quantity: lot_size in the paper engine, one in the backtest.
SizingUnits == IF mode = "paper" THEN LotSizes ELSE {1}

\* C25: a successful open creates a position whose quantity is the largest
\* whole number of units (lots of lot_size in the paper engine) that costs
\* at most MAX_POSITION_SIZE_PERCENT of available_balance, at least one unit,
\* debits available_balance by quantity x entry_price and leaves
\* current_balance as it is.
OpenIsSizedByAvailableBalance ==
    [][OpensOne =>
          /\ positions' = Append(positions, Opened)
          /\ Opened.quantity >= 1
          /\ \E lot_size \in SizingUnits :
                /\ Opened.quantity % lot_size = 0
                /\ Opened.quantity * Opened.entry_price * 100
                      <= available_balance * MAX_POSITION_SIZE_PERCENT
                /\ (Opened.quantity + lot_size) * Opened.entry_price * 100
                      > available_balance * MAX_POSITION_SIZE_PERCENT
          /\ available_balance' = available_balance
                                    - Opened.quantity * Opened.entry_price
          /\ current_balance' = current_balance]_vars

\* The only position of the ledger was bought for less than the share of the
\* balance it could use: the number of units was rounded down.
QuantityRoundedDown ==
    /\ Len(positions) = 1 /\ closed_positions = <<>>
    /\ available_balance + positions[1].quantity * positions[1].entry_price
          = initial_capital
    /\ positions[1].quantity * positions[1].entry_price * 100
          < initial_capital * MAX_POSITION_SIZE_PERCENT


\* A step in which the handler's wait has matched a price and the handler
\* has called the engine to open a position.
OpenAttempted ==
    /\ handler.pc = "waiting" /\ handler'.pc = "done"
    /\ handler'.polled # NoPrice

\* The policy refuses the open the handler attempts at the price it polled:
\* the cap is reached, the free balance is below MIN_BALANCE, the drawdown
\* is exceeded, the risk/reward is below the minimum or not one lot fits.
RefusedByPolicy ==
    LET r == PollResult(handler, handler'.polled)
        stops == AdaptiveStops(r.entry_price, r.atr, r.direction)
    IN \/ Len(positions) >= MAX_OPEN_POSITIONS
       \/ available_balance < Rub(MIN_BALANCE)
       \/ (initial_capital - current_balance) * 100
             > MAX_DRAWDOWN_PERCENT * initial_capital
       \/ IF handler.kind = "pullback"
          THEN RiskRewardTooLow(stops.take_distance, stops.stop_distance)
          ELSE RiskRewardTooLow(Abs(r.take_profit - r.entry_price),
                                Abs(r.entry_price - r.stop_loss))
       \/ available_balance * MAX_POSITION_SIZE_PERCENT
             < 100 * r.entry_price * handler.lot_size

InOneListOnly ==
    /\ \A i \in 1..Len(positions), j \in 1..Len(closed_positions) :
          positions[i].id # closed_positions[j].id
    /\ \A i, j \in 1..Len(positions) : i # j => positions[i].id # positions[j].id
    /\ \A i, j \in 1..Len(closed_positions) :
          i # j => closed_positions[i].id # closed_positions[j].id
    /\ \A i \in 1..Len(positions) : ~positions[i].is_closed
    /\ \A j \in 1..Len(closed_positions) : closed_positions[j].is_closed

\* C27: every position ever created is in exactly one of the open list and
\* the closed history, is_closed is true exactly in the history, the history
\* grows only at its end, and a position of the history stays there with
\* the close_price, close_reason and profit_loss it got.
ClosedHistoryIsFinal ==
    [][/\ InOneListOnly
       /\ InOneListOnly'
       /\ Len(closed_positions') >= Len(closed_positions)
       /\ \A i \in 1..Len(closed_positions) :
             /\ closed_positions'[i].id = closed_positions[i].id
             /\ closed_positions'[i].close_price = closed_positions[i].close_price
             /\ closed_positions'[i].close_reason = closed_positions[i].close_reason
             /\ closed_positions'[i].profit_loss = closed_positions[i].profit_loss]_vars


\* C28: in the paper and backtest ledgers current_balance is initial_capital
\* plus the profit_loss of the closed history, so that the reported return,
\* (current_balance - initial_capital) / initial_capital, is total_pnl /
\* initial_capital and the final capital is initial_capital + total_pnl.
CurrentBalanceIsCapitalPlusPnl ==
    mode \in {"paper", "backtest"} =>
        current_balance = initial_capital + SumPnl(closed_positions)


\* C21: in the live engine, under every interleaving of the signal handlers
\* and the monitoring loop, the number of open positions never exceeds
\* MAX_OPEN_POSITIONS.
LiveOpenCountWithinLimit ==
    mode = "live" => Len(positions) <= MAX_OPEN_POSITIONS


\* The close reasons of the specification, in the code's lower case.
KnownCloseReasons == {"stop_loss", "take_profit", "end_of_session", "backtest_end",
                      "manual", "connection_loss"}

\* C31: every position of the closed history has its close_reason set, to
\* one of STOP_LOSS, TAKE_PROFIT, END_OF_SESSION, BACKTEST_END, MANUAL and
\* CONNECTION_LOSS; a position closed at shutdown carries MANUAL.
CloseReasonIsKnown ==
    \A i \in 1..Len(closed_positions) :
        closed_positions[i].close_reason \in KnownCloseReasons


\* The positions of the ledger after a step, open and closed.
EverCreatedNext == {positions'[i] : i \in 1..Len(positions')} \cup
                   {closed_positions'[i] : i \in 1..Len(closed_positions')}

\* The extrema of p enclose zero and, once p is closed, its profit_loss.
ExtremaEnclose(p) ==
    /\ p.max_loss <= 0 /\ 0 <= p.max_profit
    /\ p.is_closed => (p.max_loss <= p.profit_loss /\ p.profit_loss <= p.max_profit)

\* C32: over the PnL evaluations of a position (monitor ticks, then the
\* closing one) max_profit never falls and max_loss never rises, max_loss
\* <= 0 <= max_profit, every evaluated PnL lies between them, and so does
\* the realized profit_loss after the close.
ExtremaAreRunning ==
    [][/\ \A p \in EverCreated : ExtremaEnclose(p)
       /\ \A q \in EverCreatedNext : ExtremaEnclose(q)
       /\ \A p \in EverCreated : \A q \in EverCreatedNext :
             p.id = q.id => (q.max_profit >= p.max_profit /\ q.max_loss <= p.max_loss)
       /\ (/\ mode = "paper" /\ mon_queue # <<>> /\ mon_queue' = Tail(mon_queue)
           /\ call'.price # NoPrice) =>
             \A q \in EverCreatedNext :
                 q.id = call'.id =>
                    /\ q.max_loss <= PnlValue(q, call'.price)
                    /\ PnlValue(q, call'.price) <= q.max_profit]_vars

\* A position was stopped out after a tick far below its stop: its largest
\* loss is larger than the loss it realized.
StoppedOutAboveItsWorst ==
    \E i \in 1..Len(closed_positions) :
        /\ closed_positions[i].close_reason = "stop_loss"
        /\ closed_positions[i].max_loss < closed_positions[i].profit_loss
        /\ closed_positions[i].profit_loss < 0


\* C33: a classified signal runs one entry protocol, the pullback wait for
\* POSITIVE and NEGATIVE and the range wait for NEUTRAL, and creates at most
\* one position: a long pullback position for POSITIVE, a short one for
\* NEGATIVE, a range position for NEUTRAL.
OneEntryProtocolPerSignal ==
    [][/\ handler'.pc # "idle" =>
             /\ handler'.kind = "pullback" <=>
                   handler'.context \in {"POSITIVE", "NEGATIVE"}
             /\ handler'.kind = "range" <=>
                   (handler'.context = "NEUTRAL" /\ ENABLE_RANGE_TRADING)
             /\ trade_counter' <= handler'.signal
             /\ handler'.pc = "waiting" => trade_counter' < handler'.signal
       /\ Len(positions') <= Len(positions) + 1
       /\ OpensOne =>
             /\ handler.pc = "waiting" /\ handler'.pc = "done"
             /\ handler'.outcome = "opened" /\ handler'.signal = handler.signal
             /\ handler.context = "POSITIVE" =>
                   (Opened.strategy = "pullback" /\ Opened.direction = "UP")
             /\ handler.context = "NEGATIVE" =>
                   (Opened.strategy = "pullback" /\ Opened.direction = "DOWN")
             /\ handler.context = "NEUTRAL" => Opened.strategy = "range_trading"]_vars

\* A NEGATIVE signal has opened a short pullback position and a NEUTRAL
\* signal a range position.
ShortForNegativeRangeForNeutral ==
    /\ handler.pc = "done" /\ handler.outcome = "opened"
    /\ handler.context = "NEUTRAL"
    /\ \E i, j \in 1..Len(positions) :
          /\ positions[i].strategy = "pullback" /\ positions[i].direction = "DOWN"
          /\ positions[j].strategy = "range_trading" /\ positions[j].id = trade_counter


\* The single pass over the closed positions in closing order: balance +=
\* profit_loss, peak = max(peak, balance), max_drawdown = max of
\* (peak - balance) / peak.
RECURSIVE RunningDrawdown(_, _)
RunningDrawdown(rest, acc) ==
    IF rest = <<>> THEN acc.max_drawdown
    ELSE LET balance == acc.balance + Head(rest).profit_loss
             peak == IF balance > acc.peak THEN balance ELSE acc.peak
             drawdown == [num |-> peak - balance, den |-> peak]
         IN RunningDrawdown(Tail(rest),
                [balance |-> balance, peak |-> peak,
                 max_drawdown |-> IF FractionGreater(drawdown, acc.max_drawdown)
                                  THEN drawdown ELSE acc.max_drawdown])

\* C34: the maximum drawdown get_statistics reports equals the one of the
\* single-pass running accumulator, for every closed history, positions
\* that share a close_time included.
DrawdownMatchesRunningAccumulator ==
    (mode = "stats" /\ call # <<>>) =>
        LET running == RunningDrawdown(
                SubSeq(closed_positions, 1, call.total_trades),
                [balance |-> initial_capital, peak |-> initial_capital,
                 max_drawdown |-> [num |-> 0, den |-> 1]])
        IN call.max_drawdown.num * running.den = running.num * call.max_drawdown.den


\* C35: in the statistics of every engine winning_trades + losing_trades =
\* total_trades = the length of the closed history, positions closed with a
\* profit_loss of exactly 0 included.
EveryTradeIsWonOrLost ==
    /\ Statistics.total_trades = Len(closed_positions)
    /\ Statistics.winning_trades + Statistics.losing_trades = Statistics.total_trades


\* C36: a broker order that fails leaves the live engine as it was.  While
\* opening, no position is created.  While closing, the position stays in
\* the open list with is_closed false and its close fields unset, does not
\* enter the closed history, and is in the next snapshot of the monitor.
FailedOrderChangesNothing ==
    [][/\ (\E h \in LiveHandlers :
              /\ live.task[h].pc = "ordering" /\ live'.task[h].pc = "done"
              /\ live'.task[h].outcome = "failed")
          => UNCHANGED ledger
       /\ (mode = "live" /\ live.closing # <<>> /\ live'.closing = <<>>
           /\ call'.raised) =>
             /\ UNCHANGED ledger
             /\ \E i \in 1..Len(positions') :
                   /\ positions'[i].id = live.closing[1].id
                   /\ ~positions'[i].is_closed
                   /\ positions'[i].close_price = 0
                   /\ positions'[i].close_reason = "None"
             /\ \A j \in 1..Len(closed_positions') :
                   closed_positions'[j].id # live.closing[1].id
       /\ (mode = "live" /\ mon_queue = <<>> /\ mon_queue' # <<>>) =>
             mon_queue' = Ids(positions)]_vars

\* The closing order of a position has failed and the monitor has taken the
\* position into its next pass.
FailedCloseIsTriedAgain ==
    /\ mode = "live" /\ call # <<>> /\ call.raised
    /\ mon_queue # <<>> /\ Head(mon_queue) = call.id
    /\ \E i \in 1..Len(positions) : positions[i].id = call.id /\ ~positions[i].is_closed


\* C37: in live mode the engine hands the broker at most one closing order
\* for each position, whatever the interleaving of the monitoring loop, its
\* cancellation at shutdown and the shutdown loop.
OneClosingOrderPerPosition ==
    mode = "live" =>
        \A i, j \in 1..Len(live.close_orders) :
            i # j => live.close_orders[i] # live.close_orders[j]


\* update_connection has just been given an error.
FailedUpdate ==
    error_handler'.status.failed_attempts = error_handler.status.failed_attempts + 1

\* C38: the monitor creates the connection-loss callback once per outage:
\* in a run of failed updates a callback task is created by the update that
\* brings failed_attempts to MAX_RETRY_ATTEMPTS and by no other update,
\* until a successful update has set failed_attempts to 0 and is_connected
\* to TRUE.
OneCallbackPerOutage ==
    [][/\ error_handler.on_connection_loss /\ FailedUpdate
          => (error_handler'.tasks # error_handler.tasks
                <=> error_handler'.status.failed_attempts = MAX_RETRY_ATTEMPTS)
       /\ error_handler'.tasks # error_handler.tasks
          => /\ FailedUpdate
             /\ error_handler'.tasks = error_handler.tasks + 1]_vars


\* The safe_call that is running or has returned, and its invocations.
SafeCall == error_handler.safe_call
Invocations == SafeCall.invocations

\* Where a safe_call that has returned stands: it stopped at the first
\* invocation that succeeded and returned its value, or every one of
\* MAX_RETRY_ATTEMPTS invocations failed and it returned None; it slept
\* RETRY_DELAY once between two invocations and not after the last.
ReturnedAsPromised ==
    SafeCall.pc = "returned"
        => /\ Len(Invocations) >= 1
           /\ IF Invocations[Len(Invocations)].outcome = "ok"
              THEN SafeCall.result = Invocations[Len(Invocations)].value
              ELSE /\ Len(Invocations) = MAX_RETRY_ATTEMPTS
                   /\ SafeCall.result = NoPrice
           /\ SafeCall.slept = RETRY_DELAY * (Len(Invocations) - 1)

\* C39: safe_call always returns, after at most MAX_RETRY_ATTEMPTS
\* invocations of the wrapped function: with the result of the first
\* invocation that succeeds, which is the last one made, or with None once
\* MAX_RETRY_ATTEMPTS invocations have failed or timed out; it waits
\* RETRY_DELAY between two attempts and not after the last one.
SafeCallReturnsWithinRetries ==
    /\ (SafeCall.pc \in {"attempt", "sleeping"}) ~> (SafeCall.pc = "returned")
    /\ [](/\ Len(Invocations) <= MAX_RETRY_ATTEMPTS
          /\ \A i \in 1..Len(Invocations) - 1 : Invocations[i].outcome # "ok"
          /\ ReturnedAsPromised)
    /\ [][(SafeCall.pc = "returned" /\ SafeCall' # SafeCall)
             => SafeCall' = [NoSafeCall EXCEPT !.pc = "attempt"]]_vars

\* A safe_call has returned None after a timeout, an exception and a
\* timeout, having slept twice.
ReturnedNoneAfterThreeFailures ==
    /\ mode = "error_handler"
    /\ SafeCall.pc = "returned"
    /\ Len(Invocations) = MAX_RETRY_ATTEMPTS
    /\ Invocations[1].outcome = "timeout"
    /\ Invocations[2].outcome = "exception"
    /\ Invocations[3].outcome = "timeout"
    /\ SafeCall.result = NoPrice
    /\ SafeCall.slept = 2 * RETRY_DELAY

=============================================================================
